---- MODULE Spec2Model ----
(***************************************************************************)
(* Trade analytics and discipline correlation of the trading dashboard:    *)
(* the useChecklist hook (notes envelope, adherence score and level) and   *)
(* the chart components that bucket and aggregate the trades.              *)
(*                                                                         *)
(* JavaScript numbers are modelled as exact rationals plus NaN: a number   *)
(* is a record [nan, n, d] with d > 0 and n/d in lowest terms.             *)
(***************************************************************************)
EXTENDS Integers, Sequences, FiniteSets, TLC

VARIABLES
    riskRewardChart, \* what RiskRewardChart last computed
    discipline,      \* what the Discipline page last computed
    notes,           \* argument of parseTradeNotes (a trade's notes field)
    parsed,          \* last result of parseTradeNotes
    scoreArg,        \* argument of the last calculateAdherenceScore call
    adherenceScore,  \* its result
    levelArg,        \* argument of the last getAdherenceLevel call
    adherenceLevel,  \* its result
    trades,          \* the trade array supplied by useTrades
    strategies,      \* the strategy array supplied by useStrategies
    tzOffset,        \* UTC offset of the environment, minutes east of UTC
    freqChart,       \* what TradeFrequencyChart last computed
    pnlChart,        \* what PnLChart last computed
    moodChart,       \* what PsychologyMoodTracker last computed
    checklistItems,  \* the checklist item definitions of useChecklist
    adherenceChart,  \* what ChecklistAdherenceChart last computed
    storage,         \* localStorage under the key tradingDashboard_checklistItems
    hooks,           \* the mounted useChecklist instances: React state and closure
    lastCall,        \* record of the most recent call into a useChecklist instance
    ledger           \* the ids generated, added and deleted so far

scorerVars == <<notes, parsed, scoreArg, adherenceScore, levelArg, adherenceLevel>>

inputVars == <<trades, strategies, tzOffset, checklistItems>>

chartVars == <<freqChart, pnlChart, moodChart>>

cohortVars == <<adherenceChart>>

pageVars == <<riskRewardChart, discipline>>

hookVars == <<storage, hooks, lastCall, ledger>>

vars == <<scorerVars, inputVars, chartVars, cohortVars, pageVars, hookVars>>

-----------------------------------------------------------------------------
(* JavaScript numbers *)

Abs(i) == IF i < 0 THEN -i ELSE i

RECURSIVE Gcd(_, _)
Gcd(a, b) == IF b = 0 THEN a ELSE Gcd(b, a % b)

NaN == [nan |-> TRUE, n |-> 0, d |-> 1]

\* the number n/d (d > 0) in lowest terms
Rat(n, d) ==
    LET g == Gcd(Abs(n), d)
    IN  [nan |-> FALSE, n |-> n \div g, d |-> d \div g]

Num(i) == Rat(i, 1)

NumAdd(a, b) ==
    IF a.nan \/ b.nan THEN NaN ELSE Rat(a.n * b.d + b.n * a.d, a.d * b.d)

NumSub(a, b) ==
    IF a.nan \/ b.nan THEN NaN ELSE Rat(a.n * b.d - b.n * a.d, a.d * b.d)

NumMul(a, b) ==
    IF a.nan \/ b.nan THEN NaN ELSE Rat(a.n * b.n, a.d * b.d)

\* a / k for an integer k > 0
NumDivInt(a, k) ==
    IF a.nan THEN NaN ELSE Rat(a.n, a.d * k)

\* Math.abs
NumAbs(a) == IF a.nan THEN NaN ELSE Rat(Abs(a.n), a.d)

\* a / b for b > 0 (the call sites divide only behind a test b > 0)
NumDiv(a, b) ==
    IF a.nan \/ b.nan \/ b.n <= 0 THEN NaN ELSE Rat(a.n * b.d, a.d * b.n)

\* a >= b, a > b, a < b: every comparison with NaN is false
NumGe(a, b) == ~a.nan /\ ~b.nan /\ a.n * b.d >= b.n * a.d
NumGt(a, b) == ~a.nan /\ ~b.nan /\ a.n * b.d > b.n * a.d
NumLt(a, b) == ~a.nan /\ ~b.nan /\ a.n * b.d < b.n * a.d

-----------------------------------------------------------------------------
(* JavaScript values found under the "checklist" key of a parsed envelope. *)
(* A value is its type tag and its own enumerable entries (what            *)
(* Object.keys / Object.values / v[key] see).  An entry value is one of    *)
(* the element tags "true", "false", "str" (a non-empty string), "null".   *)

EmptyEntries == [k \in {} |-> "true"]

JsUndefined == [t |-> "undefined", ent |-> EmptyEntries]
JsNull      == [t |-> "null", ent |-> EmptyEntries]
JsZero      == [t |-> "zero", ent |-> EmptyEntries]
JsNumber    == [t |-> "number", ent |-> EmptyEntries]
JsEmptyStr  == [t |-> "emptystring", ent |-> EmptyEntries]
JsObject(m) == [t |-> "object", ent |-> m]
JsArray(m)  == [t |-> "array", ent |-> m]
JsString(m) == [t |-> "string", ent |-> m]

\* Boolean(v) for a value and for an entry of a value
Truthy(v) == v.t \notin {"undefined", "null", "zero", "emptystring"}
ElemTruthy(e) == e \in {"true", "str"}

\* Object.values(v).length and Object.values(v).filter(Boolean).length
ObjectValuesLen(v) == Cardinality(DOMAIN v.ent)
ObjectValuesTruthyLen(v) == Cardinality({k \in DOMAIN v.ent : ElemTruthy(v.ent[k])})

-----------------------------------------------------------------------------
(* The notes field of a trade.  A notes value pairs the text (raw) with    *)
(* what JSON.parse yields on it: json is "invalid" when JSON.parse throws, *)
(* otherwise the class of the parsed value; for an object, hasCk is        *)
(* ('checklist' in parsed), ck is parsed.checklist and un is               *)
(* parsed.userNotes ("" when absent).                                      *)

NullNotes ==
    [null |-> TRUE, raw |-> "", json |-> "invalid", hasCk |-> FALSE,
     ck |-> JsUndefined, un |-> ""]

PlainNotes(text, cls) ==
    [null |-> FALSE, raw |-> text, json |-> cls, hasCk |-> FALSE,
     ck |-> JsUndefined, un |-> ""]

ObjectNotes(text, ckv, u) ==
    [null |-> FALSE, raw |-> text, json |-> "object", hasCk |-> TRUE,
     ck |-> ckv, un |-> u]

\* the eight default item ids of loadChecklistItems and two generated ids
ItemIds ==
    <<"market-trend", "volume-confirmation", "risk-reward", "stop-loss-set",
      "position-size", "exit-plan", "emotion-control", "lesson-learned",
      "item-1", "item-2", "item-3", "item-4">>

\* the adherence map over the first n item ids whose first k are followed
PrefixMap(n, k) ==
    [id \in {ItemIds[i] : i \in 1..n} |->
        IF \E i \in 1..k : ItemIds[i] = id THEN "true" ELSE "false"]

SmallIds == {ItemIds[1], ItemIds[3], ItemIds[6]}

\* every adherence map (item id -> boolean) over a subset of SmallIds
SmallMaps ==
    UNION {[S -> {"true", "false"}] : S \in SUBSET SmallIds}

\* maps that reach the band boundaries: 9/10, 3/4, 1/2, 1/4, 8/9, 2/3, ...
MaxMapSize == 10

AdherenceMaps ==
    SmallMaps \cup UNION {{PrefixMap(n, k) : k \in 0..n} : n \in 4..MaxMapSize}

\* String.prototype.trim on the user notes the model enters
UserNotesInputs == {"", "held overnight", "  late entry "}

\* no trim: the text as entered
TrimKeepsText(s) == s

Trim(s) == IF s = "  late entry " THEN "late entry" ELSE s

\* JSON.stringify of the entries of an adherence map, keys in ItemIds order
RECURSIVE StringifyEntries(_, _)
StringifyEntries(m, i) ==
    IF i > Len(ItemIds) THEN ""
    ELSE LET id == ItemIds[i]
             rest == StringifyEntries(m, i + 1)
         IN  IF id \in DOMAIN m
             THEN "\"" \o id \o "\":" \o m[id]
                      \o (IF rest = "" THEN "" ELSE "," \o rest)
             ELSE rest

\* serializeTradeNotes: the text of the envelope, paired with what JSON.parse
\* yields on that text
serializeTradeNotes(checklist, userNotes) ==
    ObjectNotes("{\"checklist\":{" \o StringifyEntries(checklist, 1)
                    \o "},\"userNotes\":\"" \o Trim(userNotes) \o "\"}",
                JsObject(checklist), Trim(userNotes))

\* notes written by serializeTradeNotes: the envelope of a boolean map
EnvelopeNotes ==
    {serializeTradeNotes(m, "held overnight") : m \in AdherenceMaps}
        \cup {serializeTradeNotes(PrefixMap(2, 1), u) : u \in UserNotesInputs}

\* notes that JSON.parse rejects
InvalidJsonNotes ==
    { PlainNotes("Entered late, exit was rushed", "invalid"),
      PlainNotes("{checklist: broken", "invalid"),
      PlainNotes("{\"checklist\":{\"risk-reward\":true}", "invalid") }

EmptyNotes == PlainNotes("", "invalid")

\* valid JSON that is not the envelope
ShapelessNotes ==
    { PlainNotes("42", "scalar"),
      PlainNotes("true", "scalar"),
      PlainNotes("\"just a string\"", "scalar"),
      PlainNotes("null", "null"),
      PlainNotes("[1,2]", "array"),
      PlainNotes("{\"userNotes\":\"x\"}", "object"),
      PlainNotes("{}", "object") }

\* valid JSON objects with a checklist key whose value is not a boolean map
BadChecklistNotes ==
    { ObjectNotes("{\"checklist\":\"yes\"}",
                  JsString([k \in {"0", "1", "2"} |-> "str"]), ""),
      ObjectNotes("{\"checklist\":\"\"}", JsEmptyStr, ""),
      ObjectNotes("{\"checklist\":7,\"userNotes\":\"n\"}", JsNumber, "n"),
      ObjectNotes("{\"checklist\":0}", JsZero, ""),
      ObjectNotes("{\"checklist\":[true,false]}",
                  JsArray([k \in {"0", "1"} |->
                            IF k = "0" THEN "true" ELSE "false"]), ""),
      ObjectNotes("{\"checklist\":[\"a\"]}",
                  JsArray([k \in {"0"} |-> "str"]), ""),
      ObjectNotes("{\"checklist\":null,\"userNotes\":\"n\"}", JsNull, "n"),
      ObjectNotes("{\"checklist\":{\"risk-reward\":\"yes\"}}",
                  JsObject([k \in {"risk-reward"} |-> "str"]), "") }

NoteInputs ==
    {NullNotes, EmptyNotes} \cup InvalidJsonNotes \cup ShapelessNotes
        \cup BadChecklistNotes \cup EnvelopeNotes

-----------------------------------------------------------------------------
(* useChecklist: the pure functions *)

\* a parseTradeNotes that loses the text of plain notes
parseTradeNotesDropsText(nt) ==
    IF nt.json = "object" /\ nt.hasCk /\ ~nt.null /\ nt.raw # ""
    THEN [hasChecklist |-> TRUE,
          checklist |-> IF Truthy(nt.ck) THEN nt.ck ELSE JsObject(EmptyEntries),
          userNotes |-> nt.un]
    ELSE [hasChecklist |-> FALSE, checklist |-> JsUndefined, userNotes |-> ""]

\* parseTradeNotes: hasChecklist is FALSE when the result has no checklist
\* property (parsed.checklist is undefined)
parseTradeNotes(nt) ==
    IF nt.null \/ nt.raw = ""
    THEN [hasChecklist |-> FALSE, checklist |-> JsUndefined, userNotes |-> ""]
    ELSE IF nt.json = "object" /\ nt.hasCk
    THEN [hasChecklist |-> TRUE,
          checklist |-> IF Truthy(nt.ck) THEN nt.ck ELSE JsObject(EmptyEntries),
          userNotes |-> nt.un]
    ELSE [hasChecklist |-> FALSE, checklist |-> JsUndefined, userNotes |-> nt.raw]

\* a calculateAdherenceScore that returns the fraction, not the percentage
calculateAdherenceScoreFraction(checklist) ==
    IF ObjectValuesLen(checklist) = 0
    THEN Num(0)
    ELSE Rat(ObjectValuesTruthyLen(checklist), ObjectValuesLen(checklist))

calculateAdherenceScore(checklist) ==
    IF ObjectValuesLen(checklist) = 0
    THEN Num(0)
    ELSE Rat(ObjectValuesTruthyLen(checklist) * 100, ObjectValuesLen(checklist))

\* a getAdherenceLevel whose boundaries fall into the lower band
getAdherenceLevelStrict(score) ==
    IF NumGt(score, Num(90)) THEN "Excellent"
    ELSE IF NumGt(score, Num(75)) THEN "Good"
    ELSE IF NumGt(score, Num(50)) THEN "Fair"
    ELSE IF NumGt(score, Num(25)) THEN "Poor"
    ELSE "Very Poor"

getAdherenceLevel(score) ==
    IF NumGe(score, Num(90)) THEN "Excellent"
    ELSE IF NumGe(score, Num(75)) THEN "Good"
    ELSE IF NumGe(score, Num(50)) THEN "Fair"
    ELSE IF NumGe(score, Num(25)) THEN "Poor"
    ELSE "Very Poor"

\* what the consumers of parseTradeNotes make of its result p
\* (tradesWithChecklist): parsed.checklist || {}
ChecklistOf(p) ==
    IF p.hasChecklist /\ Truthy(p.checklist) THEN p.checklist
    ELSE JsObject(EmptyEntries)

\* a consumer that scores a trade without checklist as fully adherent
ScoreOfDefaultsFull(p) ==
    IF p.hasChecklist /\ Truthy(p.checklist)
    THEN calculateAdherenceScore(p.checklist)
    ELSE Num(100)

\* parsed.checklist ? calculateAdherenceScore(parsed.checklist) : 0
ScoreOf(p) ==
    IF p.hasChecklist /\ Truthy(p.checklist)
    THEN calculateAdherenceScore(p.checklist)
    ELSE Num(0)

-----------------------------------------------------------------------------
(* Calendar dates and the JavaScript Date operations the charts use.       *)
(* A trade date is the text YYYY-MM-DD, modelled as the record [y, m, d];  *)
(* an instant (a Date object) is its number of minutes since the epoch.    *)

\* day number (days since 1970-01-01) of a civil date, and back
DaysFromCivil(y, m, d) ==
    LET yy  == IF m <= 2 THEN y - 1 ELSE y
        era == yy \div 400
        yoe == yy - era * 400
        mp  == IF m > 2 THEN m - 3 ELSE m + 9
        doy == (153 * mp + 2) \div 5 + d - 1
        doe == yoe * 365 + yoe \div 4 - yoe \div 100 + doy
    IN  era * 146097 + doe - 719468

CivilFromDays(z) ==
    LET zz  == z + 719468
        era == zz \div 146097
        doe == zz - era * 146097
        yoe == (doe - doe \div 1460 + doe \div 36524 - doe \div 146096) \div 365
        doy == doe - (365 * yoe + yoe \div 4 - yoe \div 100)
        mp  == (5 * doy + 2) \div 153
        d   == doy - (153 * mp + 2) \div 5 + 1
        m   == IF mp < 10 THEN mp + 3 ELSE mp - 9
        y   == yoe + era * 400
    IN  [y |-> IF m <= 2 THEN y + 1 ELSE y, m |-> m, d |-> d]

MinutesPerDay == 1440

\* new Date(tradeDate + 'T00:00:00'): a date-time without offset is local time
DateFromLocalText(date, tz) ==
    DaysFromCivil(date.y, date.m, date.d) * MinutesPerDay - tz

\* new Date(fullDate) for the date-only text YYYY-MM-DD: midnight UTC
DateFromDateOnlyText(date) ==
    DaysFromCivil(date.y, date.m, date.d) * MinutesPerDay

\* day number of the local calendar day of an instant
LocalDay(t, tz) == (t + tz) \div MinutesPerDay

\* Date.prototype.getDay: local day of the week, 0 = Sunday
GetDay(t, tz) == (LocalDay(t, tz) + 4) % 7

\* weekStart.setDate(date.getDate() - n): n local days back, same local time
SetDateBack(t, n) == t - n * MinutesPerDay

\* toISOString().split('T')[0]: the calendar date of the instant in UTC
ToISODate(t) == CivilFromDays(t \div MinutesPerDay)

\* toLocaleDateString("en-US", {month: "short", day: "numeric"}): the local
\* month and day, without the year ("Mar 3")
ToMonthDayLabel(t, tz) ==
    LET c == CivilFromDays(LocalDay(t, tz)) IN [m |-> c.m, d |-> c.d]

\* new Date("Mar 3").getTime(): the engine completes a label without a year
\* with its default year and reads it as local time
DefaultYear == 2001

DateFromLabel(label, tz) ==
    DaysFromCivil(DefaultYear, label.m, label.d) * MinutesPerDay - tz

-----------------------------------------------------------------------------
(* Arrays *)

\* Array.prototype.sort with the comparator key(a) - key(b), keys[i] being
\* the key of s[i]: a stable sort (insertion of s[i] behind the elements
\* whose key is not greater; in a sorted array those are a prefix)
InsertByKey(sorted, e, k) ==
    LET n == Len(sorted.s)
        p == Cardinality({j \in 1..n : sorted.k[j] <= k})
    IN  [s |-> SubSeq(sorted.s, 1, p) \o <<e>> \o SubSeq(sorted.s, p + 1, n),
         k |-> SubSeq(sorted.k, 1, p) \o <<k>> \o SubSeq(sorted.k, p + 1, n)]

\* the insertions of s[lo], ..., s[hi] in this order into sorted. The range
\* is halved and the first half is computed (by the test on it) before the
\* second half starts, so that the evaluation nests to a depth logarithmic
\* in the length of the range.
RECURSIVE SortRange(_, _, _, _, _)
SortRange(sorted, s, keys, lo, hi) ==
    IF lo > hi THEN sorted
    ELSE IF lo = hi THEN InsertByKey(sorted, s[lo], keys[lo])
    ELSE LET mid == (lo + hi) \div 2
             first == SortRange(sorted, s, keys, lo, mid)
         IN  IF Len(first.s) > 0 THEN SortRange(first, s, keys, mid + 1, hi) ELSE first

SortByKeys(s, keys) == SortRange([s |-> <<>>, k |-> <<>>], s, keys, 1, Len(s)).s

\* Array.prototype.slice(-n)
SliceLast(s, n) ==
    IF Len(s) <= n THEN s ELSE SubSeq(s, Len(s) - n + 1, Len(s))

\* s.filter(Keep): the elements s[i] with keep[i], lo <= i <= hi, in order
RECURSIVE FilterSeq(_, _, _, _)
FilterSeq(s, keep, lo, hi) ==
    IF lo > hi THEN <<>>
    ELSE IF lo = hi THEN (IF keep[lo] THEN <<s[lo]>> ELSE <<>>)
    ELSE LET mid == (lo + hi) \div 2
         IN  FilterSeq(s, keep, lo, mid) \o FilterSeq(s, keep, mid + 1, hi)

\* index of the entry of acc stored under the property name k, 0 when none
IndexOfKey(acc, k) ==
    IF \E i \in 1..Len(acc) : acc[i].key = k
    THEN CHOOSE i \in 1..Len(acc) : acc[i].key = k
    ELSE 0

-----------------------------------------------------------------------------
(* Trades and strategies *)

\* an absent field (null or undefined)
Absent == "<absent>"

\* a numeric field holds a text or a number; of the numbers only 0 behaves
\* differently from its text (it is falsy)
NumberZero == "<number 0>"

\* field.toString()
FieldToString(field) == IF field = NumberZero THEN "0" ELSE field

\* Boolean(field)
FieldTruthy(field) == field \notin {Absent, "", NumberZero}

\* parseFloat on the numeric texts the model enters
ParseFloat(text) ==
    CASE text = "0" -> Num(0)
      [] text = "10" -> Num(10)
      [] text = "90" -> Num(90)
      [] text = "95" -> Num(95)
      [] text = "105" -> Num(105)
      [] text = "110" -> Num(110)
      [] text = "100" -> Num(100)
      [] text = "200" -> Num(200)
      [] text = "-50" -> Num(-50)
      [] text = "12.5" -> Rat(25, 2)
      [] text = "10abc" -> Num(10)
      [] OTHER -> NaN

\* parseFloat(field?.toString() || "0")
ParseFieldOrZero(field) ==
    ParseFloat(IF field = Absent \/ FieldToString(field) = "" THEN "0"
               ELSE FieldToString(field))

\* getActiveStrategyTrades (lib/calculations): with an empty strategies list
\* every trade passes; otherwise the trades whose strategy is an active one
IsActiveStrategy(name, strats) ==
    \E i \in 1..Len(strats) : strats[i].name = name /\ strats[i].status = "active"

getActiveStrategyTrades(ts, strats) ==
    IF Len(strats) = 0 THEN ts
    ELSE FilterSeq(ts, [i \in 1..Len(ts) |-> IsActiveStrategy(ts[i].strategy, strats)],
                   1, Len(ts))

-----------------------------------------------------------------------------
(* TradeFrequencyChart *)

WeeklyWindow == 12

\* a week key whose weeks start on Monday
WeekKeyMondayStart(trade, tz) ==
    LET date == DateFromLocalText(trade.tradeDate, tz)
        weekStart == SetDateBack(date, (GetDay(date, tz) + 6) % 7)
    IN  ToISODate(weekStart)

\* the property name under which a trade is accumulated
WeekKey(trade, tz) ==
    LET date == DateFromLocalText(trade.tradeDate, tz)
        weekStart == SetDateBack(date, GetDay(date, tz))
    IN  ToISODate(weekStart)

WeekLabel(trade, tz) ==
    LET date == DateFromLocalText(trade.tradeDate, tz)
        weekStart == SetDateBack(date, GetDay(date, tz))
    IN  ToMonthDayLabel(weekStart, tz)

\* one step of the reduce; acc is the accumulator object as the sequence of
\* its properties in insertion order (key is the property name)
WeeklyStep(acc, trade, tz) ==
    LET weekKey == WeekKey(trade, tz)
        acc1 == IF IndexOfKey(acc, weekKey) = 0
                THEN Append(acc, [key |-> weekKey, week |-> WeekLabel(trade, tz),
                                  trades |-> 0, totalVolume |-> Num(0),
                                  avgPnL |-> Num(0), pnlSum |-> Num(0)])
                ELSE acc
        i == IndexOfKey(acc1, weekKey)
        pnl == ParseFieldOrZero(trade.profitLoss)
        volume == NumMul(ParseFieldOrZero(trade.entryPrice), Num(trade.quantity))
        b == acc1[i]
    IN  [acc1 EXCEPT ![i] =
            [key |-> b.key, week |-> b.week,
             trades |-> b.trades + 1,
             totalVolume |-> NumAdd(b.totalVolume, volume),
             pnlSum |-> NumAdd(b.pnlSum, pnl),
             avgPnL |-> NumDivInt(NumAdd(b.pnlSum, pnl), b.trades + 1)]]

\* the reduce over ts[lo], ..., ts[hi], left to right, from acc (the range
\* is halved, the first half computed before the second starts, as in
\* SortRange)
RECURSIVE WeeklyReduce(_, _, _, _, _)
WeeklyReduce(acc, ts, lo, hi, tz) ==
    IF lo > hi THEN acc
    ELSE IF lo = hi THEN WeeklyStep(acc, ts[lo], tz)
    ELSE LET mid == (lo + hi) \div 2
             first == WeeklyReduce(acc, ts, lo, mid, tz)
         IN  IF Len(first) >= 0 THEN WeeklyReduce(first, ts, mid + 1, hi, tz) ELSE first

weeklyData(ts, strats, tz) ==
    LET act == getActiveStrategyTrades(ts, strats)
    IN  WeeklyReduce(<<>>, act, 1, Len(act), tz)

\* Object.values(weeklyData).sort(by new Date(week)).slice(-12); the entries
\* keep their property name (key) for reference
WeeklyChartData(wd, tz) ==
    SliceLast(SortByKeys(wd, [i \in 1..Len(wd) |-> DateFromLabel(wd[i].week, tz)]),
              WeeklyWindow)

-----------------------------------------------------------------------------
(* PnLChart *)

DailyWindow == 30

\* a number is falsy when it is 0 or NaN
NumFalsy(a) == a.nan \/ a.n = 0

\* one step of the reduce: if (!acc[date]) acc[date] = 0; acc[date] += pnl
DailyStep(acc, trade) ==
    LET date == trade.tradeDate
        pnl == ParseFieldOrZero(trade.profitLoss)
        i == IndexOfKey(acc, date)
    IN  IF i = 0
        THEN Append(acc, [key |-> date, pnl |-> NumAdd(Num(0), pnl)])
        ELSE [acc EXCEPT ![i].pnl =
                 NumAdd(IF NumFalsy(acc[i].pnl) THEN Num(0) ELSE acc[i].pnl, pnl)]

\* the reduce over ts[lo], ..., ts[hi], left to right, from acc
RECURSIVE DailyReduce(_, _, _, _)
DailyReduce(acc, ts, lo, hi) ==
    IF lo > hi THEN acc
    ELSE IF lo = hi THEN DailyStep(acc, ts[lo])
    ELSE LET mid == (lo + hi) \div 2
             first == DailyReduce(acc, ts, lo, mid)
         IN  IF Len(first) >= 0 THEN DailyReduce(first, ts, mid + 1, hi) ELSE first

dailyData(ts, strats) ==
    LET act == getActiveStrategyTrades(ts, strats)
    IN  DailyReduce(<<>>, act, 1, Len(act))

\* Object.entries(dailyData).map(...).sort(by new Date(fullDate)).slice(-30)
PnLChartData(dd, tz) ==
    LET rows == [i \in 1..Len(dd) |->
                    [date |-> ToMonthDayLabel(DateFromLocalText(dd[i].key, tz), tz),
                     fullDate |-> dd[i].key,
                     pnl |-> dd[i].pnl,
                     profit |-> IF NumGt(dd[i].pnl, Num(0)) THEN dd[i].pnl ELSE Num(0),
                     loss |-> IF NumLt(dd[i].pnl, Num(0)) THEN dd[i].pnl ELSE Num(0)]]
    IN  SliceLast(SortByKeys(rows, [i \in 1..Len(rows) |->
                                      DateFromDateOnlyText(rows[i].fullDate)]),
                  DailyWindow)

-----------------------------------------------------------------------------
(* PsychologyMoodTracker *)

MoodWindow == 30

\* the names every object inherits from Object.prototype; looked up in
\* EMOTION_SCORES they yield the inherited member (a function, or for
\* __proto__ the prototype object), which is truthy
ObjectPrototypeNames ==
    {"constructor", "toString", "toLocaleString", "valueOf", "hasOwnProperty",
     "isPrototypeOf", "propertyIsEnumerable", "__proto__"}

\* an inherited member as an emotion score: not a number; the sum
\* 0 + score + ... of a day is then a string that is no numeric literal and
\* its division by the length is NaN
InheritedMember == [nan |-> TRUE, n |-> 0, d |-> 0]

\* EMOTION_SCORES[trade.emotion || "Neutral"] || 3
EmotionScore(emotion) ==
    LET e == IF emotion = Absent \/ emotion = "" THEN "Neutral" ELSE emotion
    IN  CASE e = "Confident" -> Num(5)
          [] e = "Excited" -> Num(4)
          [] e = "Disciplined" -> Num(4)
          [] e = "Neutral" -> Num(3)
          [] e = "Anxious" -> Num(2)
          [] e = "Fearful" -> Num(1)
          [] e = "Greedy" -> Num(1)
          [] e \in ObjectPrototypeNames -> InheritedMember
          [] OTHER -> Num(3)

MoodStep(acc, trade) ==
    LET date == trade.tradeDate
        acc1 == IF IndexOfKey(acc, date) = 0
                THEN Append(acc, [key |-> date, date |-> date, emotions |-> <<>>,
                                  pnls |-> <<>>, trades |-> 0])
                ELSE acc
        i == IndexOfKey(acc1, date)
        b == acc1[i]
    IN  [acc1 EXCEPT ![i] =
            [key |-> b.key, date |-> b.date,
             emotions |-> Append(b.emotions, EmotionScore(trade.emotion)),
             pnls |-> Append(b.pnls, ParseFieldOrZero(trade.profitLoss)),
             trades |-> b.trades + 1]]

\* a reduce that skips the first trade
RECURSIVE MoodReduceSkipsFirst(_, _, _, _)
MoodReduceSkipsFirst(acc, ts, lo, hi) ==
    IF lo > hi THEN acc
    ELSE IF lo = hi THEN (IF lo = 1 THEN acc ELSE MoodStep(acc, ts[lo]))
    ELSE LET mid == (lo + hi) \div 2
             first == MoodReduceSkipsFirst(acc, ts, lo, mid)
         IN  IF Len(first) >= 0 THEN MoodReduceSkipsFirst(first, ts, mid + 1, hi) ELSE first

\* the reduce over ts[lo], ..., ts[hi], left to right, from acc
RECURSIVE MoodReduce(_, _, _, _)
MoodReduce(acc, ts, lo, hi) ==
    IF lo > hi THEN acc
    ELSE IF lo = hi THEN MoodStep(acc, ts[lo])
    ELSE LET mid == (lo + hi) \div 2
             first == MoodReduce(acc, ts, lo, mid)
         IN  IF Len(first) >= 0 THEN MoodReduce(first, ts, mid + 1, hi) ELSE first

dailyMoodData(ts, strats) ==
    LET act == getActiveStrategyTrades(ts, strats)
    IN  MoodReduce(<<>>, act, 1, Len(act))

\* xs.reduce((sum, x) => sum + x, 0)
RECURSIVE SumNums(_, _)
SumNums(xs, i) ==
    IF i > Len(xs) THEN Num(0) ELSE NumAdd(xs[i], SumNums(xs, i + 1))

getMoodLabel(score) ==
    IF NumGe(score, Rat(9, 2)) THEN "Very Positive"
    ELSE IF NumGe(score, Rat(7, 2)) THEN "Positive"
    ELSE IF NumGe(score, Rat(5, 2)) THEN "Neutral"
    ELSE IF NumGe(score, Rat(3, 2)) THEN "Negative"
    ELSE "Very Negative"

MoodChartData(md, tz) ==
    LET rows == [i \in 1..Len(md) |->
                    LET avgMood == NumDivInt(SumNums(md[i].emotions, 1),
                                             Len(md[i].emotions))
                    IN  [date |-> ToMonthDayLabel(DateFromLocalText(md[i].date, tz), tz),
                         fullDate |-> md[i].date,
                         moodScore |-> avgMood,
                         pnl |-> SumNums(md[i].pnls, 1),
                         trades |-> md[i].trades,
                         moodLabel |-> getMoodLabel(avgMood)]]
    IN  SliceLast(SortByKeys(rows, [i \in 1..Len(rows) |->
                                      DateFromDateOnlyText(rows[i].fullDate)]),
                  MoodWindow)

-----------------------------------------------------------------------------
(* RiskRewardChart *)

\* the callback of the map: risk, reward and ratio of one trade (id is kept
\* for reference; the chart itself carries stockName and tradeDate)
RiskRewardOfSigned(trade) ==
    LET entryPrice == ParseFieldOrZero(trade.entryPrice)
        exitPrice == ParseFieldOrZero(trade.exitPrice)
        stopLoss == ParseFieldOrZero(trade.stopLoss)
        pnl == ParseFieldOrZero(trade.profitLoss)
        risk == NumSub(entryPrice, stopLoss)
        reward == NumSub(exitPrice, entryPrice)
    IN  [id |-> trade.id, risk |-> risk, reward |-> reward,
         ratio |-> IF NumGt(risk, Num(0)) THEN NumDiv(reward, risk) ELSE Num(0),
         pnl |-> pnl, tradeDate |-> trade.tradeDate, isWin |-> NumGt(pnl, Num(0))]

RiskRewardOf(trade) ==
    LET entryPrice == ParseFieldOrZero(trade.entryPrice)
        exitPrice == ParseFieldOrZero(trade.exitPrice)
        stopLoss == ParseFieldOrZero(trade.stopLoss)
        pnl == ParseFieldOrZero(trade.profitLoss)
        risk == NumAbs(NumSub(entryPrice, stopLoss))
        reward == NumAbs(NumSub(exitPrice, entryPrice))
    IN  [id |-> trade.id, risk |-> risk, reward |-> reward,
         ratio |-> IF NumGt(risk, Num(0)) THEN NumDiv(reward, risk) ELSE Num(0),
         pnl |-> pnl, tradeDate |-> trade.tradeDate, isWin |-> NumGt(pnl, Num(0))]

\* trade.entryPrice && trade.exitPrice && trade.stopLoss
HasRiskRewardInputs(trade) ==
    FieldTruthy(trade.entryPrice) /\ FieldTruthy(trade.exitPrice)
        /\ FieldTruthy(trade.stopLoss)

riskRewardData(ts, strats) ==
    LET activeTrades == getActiveStrategyTrades(ts, strats)
        kept == FilterSeq(activeTrades,
                          [i \in 1..Len(activeTrades) |->
                              HasRiskRewardInputs(activeTrades[i])],
                          1, Len(activeTrades))
    IN  [i \in 1..Len(kept) |-> RiskRewardOf(kept[i])]

\* the average ratio without the test on the length
avgRiskRewardUnguarded(data) ==
    IF Len(data) > 0
    THEN NumDivInt(SumNums([i \in 1..Len(data) |-> data[i].ratio], 1), Len(data))
    ELSE NaN

\* the sum of the ratios / length, 0 for an empty result set
avgRiskReward(data) ==
    IF Len(data) > 0
    THEN NumDivInt(SumNums([i \in 1..Len(data) |-> data[i].ratio], 1), Len(data))
    ELSE Num(0)

-----------------------------------------------------------------------------
(* Specification of the pure functions of useChecklist *)

NoResult == [hasChecklist |-> FALSE, checklist |-> JsUndefined, userNotes |-> "<none>"]

\* scores handed to getAdherenceLevel besides those of calculateAdherenceScore
\* (the Discipline page bands an average of scores)
ScoreInputs ==
    {Num(i) : i \in {-1, 0, 24, 25, 26, 49, 50, 51, 74, 75, 76, 89, 90, 91, 100, 101}}
        \cup {Rat(499, 10), Rat(899, 10), Rat(749, 10), Rat(249, 10), NaN}

NotRenderedCohorts ==
    [rendered |-> FALSE, tradesWithChecklist |-> <<>>, adherenceGroups |-> <<>>,
     adherenceData |-> <<>>, itemAnalysis |-> <<>>]

NotRenderedRiskReward ==
    [rendered |-> FALSE, riskRewardData |-> <<>>, avgRiskReward |-> Num(0)]

\* the Discipline page before its first render: the time range is "all",
\* no custom dates
NotRenderedDiscipline ==
    [rendered |-> FALSE, timeRange |-> "all",
     customStartDate |-> <<>>, customEndDate |-> <<>>,
     tradesWithChecklistData |-> <<>>,
     highAdherenceTradesData |-> <<>>, lowAdherenceTradesData |-> <<>>,
     highAdherencePnL |-> Num(0), lowAdherencePnL |-> Num(0),
     highAdherenceWinRate |-> Num(0), lowAdherenceWinRate |-> Num(0),
     avgAdherenceScore |-> Num(0), adherenceLevel |-> "<none>",
     hasItems |-> FALSE, adherenceDistribution |-> <<>>, topImpactItems |-> <<>>]

\* the useChecklist instances that can be mounted at once
Instances == {1, 2}

\* localStorage.getItem(STORAGE_KEY) returns null
AbsentStorage == [kind |-> "absent", items |-> <<>>]

\* an instance before its mount: useState([])
Unmounted == [mounted |-> FALSE, state |-> <<>>, items |-> <<>>]

NoCall ==
    [op |-> "none", hook |-> 0, id |-> "", ok |-> TRUE, threw |-> FALSE,
     closure |-> <<>>, stateBefore |-> <<>>, storageBefore |-> AbsentStorage]

EmptyLedger == [generated |-> 0, calls |-> 0, added |-> {}, deleted |-> {}]

\* no useChecklist instance is mounted
HooksIdle ==
    /\ storage = AbsentStorage
    /\ hooks = [h \in Instances |-> Unmounted]
    /\ lastCall = NoCall
    /\ ledger = EmptyLedger

PagesOnlyIdle ==
    /\ riskRewardChart = NotRenderedRiskReward
    /\ discipline = NotRenderedDiscipline

PagesIdle ==
    /\ PagesOnlyIdle
    /\ HooksIdle

\* the charts are not part of this specification
ChartsIdle ==
    /\ PagesIdle
    /\ trades = <<>>
    /\ strategies = <<>>
    /\ tzOffset = 0
    /\ checklistItems = <<>>
    /\ adherenceChart = NotRenderedCohorts
    /\ freqChart = [rendered |-> FALSE, weeklyData |-> <<>>, chartData |-> <<>>]
    /\ pnlChart = [rendered |-> FALSE, dailyData |-> <<>>, chartData |-> <<>>]
    /\ moodChart = [rendered |-> FALSE, dailyMoodData |-> <<>>, chartData |-> <<>>]

ScorerInit ==
    /\ ChartsIdle
    /\ notes \in NoteInputs
    /\ parsed = NoResult
    /\ scoreArg = JsUndefined
    /\ adherenceScore = Num(0)
    /\ levelArg = Num(0)
    /\ adherenceLevel = "<none>"

ParseTradeNotes ==
    /\ parsed' = parseTradeNotes(notes)
    /\ UNCHANGED <<notes, scoreArg, adherenceScore, levelArg, adherenceLevel,
                   inputVars, chartVars, cohortVars, pageVars, hookVars>>

\* calculateAdherenceScore applied to the parsed checklist, when there is one
CalculateAdherenceScore ==
    /\ parsed.hasChecklist
    /\ scoreArg' = parsed.checklist
    /\ adherenceScore' = calculateAdherenceScore(parsed.checklist)
    /\ UNCHANGED <<notes, parsed, levelArg, adherenceLevel, inputVars, chartVars, cohortVars, pageVars, hookVars>>

GetTradeAdherenceLevel ==
    /\ scoreArg # JsUndefined
    /\ levelArg' = adherenceScore
    /\ adherenceLevel' = getAdherenceLevel(adherenceScore)
    /\ UNCHANGED <<notes, parsed, scoreArg, adherenceScore, inputVars, chartVars, cohortVars, pageVars, hookVars>>

GetAdherenceLevel ==
    \E s \in ScoreInputs :
        /\ levelArg' = s
        /\ adherenceLevel' = getAdherenceLevel(s)
        /\ UNCHANGED <<notes, parsed, scoreArg, adherenceScore, inputVars, chartVars, cohortVars, pageVars, hookVars>>

ScorerNext ==
    \/ ParseTradeNotes
    \/ CalculateAdherenceScore
    \/ GetTradeAdherenceLevel
    \/ GetAdherenceLevel

SpecScorer == ScorerInit /\ [][ScorerNext]_vars

-----------------------------------------------------------------------------
(* Specification of the time-bucketing charts: the trade array, the        *)
(* strategies and the environment's UTC offset are drawn at the start, and *)
(* each chart component computes its data from them when it renders.       *)

StrategyList ==
    <<[name |-> "Breakout", status |-> "active"],
      [name |-> "Scalp", status |-> "testing"]>>

Trade(id, strategy, date, pnl) ==
    [id |-> id, strategy |-> strategy, tradeDate |-> date, entryPrice |-> "100",
     exitPrice |-> Absent, stopLoss |-> Absent,
     quantity |-> 2, profitLoss |-> pnl, emotion |-> Absent, notes |-> NullNotes]

\* the dates of the short arrays: Mon 2023-12-25; Sun 2023-12-31 and
\* Tue 2024-01-02 (one week, two years); Mon 2024-03-04 and Fri 2024-03-08
\* (one week); Sun 2024-03-10
\* UTC-05:00, UTC, UTC+05:30
TzOffsets == {-300, 0, 330}

MaxShort == 2

Choice(y, m, d, strategy, pnl) ==
    [tradeDate |-> [y |-> y, m |-> m, d |-> d], strategy |-> strategy,
     profitLoss |-> pnl]

\* the trades a short array is made of: every date above, two amounts and
\* an unparseable one on the same day, a trade of a strategy under test
TradeChoices ==
    { Choice(2023, 12, 25, "Breakout", "100"),
      Choice(2023, 12, 31, "Breakout", "100"),
      Choice(2024, 1, 2, "Breakout", "-50"),
      Choice(2024, 3, 4, "Breakout", "100"),
      Choice(2024, 3, 4, "Breakout", "abc"),
      Choice(2024, 3, 8, "Scalp", "-50"),
      Choice(2024, 3, 8, "Breakout", "100"),
      Choice(2024, 3, 10, "Breakout", "100") }

\* the trade array of a sequence of choices, ids in order
TradesOf(c) ==
    [i \in 1..Len(c) |-> Trade(i, c[i].strategy, c[i].tradeDate, c[i].profitLoss)]

\* every trade array of at most MaxShort trades over the choices
ShortTradeInputs ==
    UNION {{TradesOf(c) : c \in [1..n -> TradeChoices]} : n \in 0..MaxShort}

\* arrays of three trades: a week across the year boundary entered around a
\* later week; one day holding two trades of the active strategy and one of
\* the strategy under test; one day holding an unparseable amount between
\* two amounts; two weeks entered out of order
MixedTradeInputs ==
    { TradesOf(<<Choice(2023, 12, 31, "Breakout", "100"),
                 Choice(2024, 3, 10, "Breakout", "100"),
                 Choice(2024, 1, 2, "Breakout", "-50")>>),
      TradesOf(<<Choice(2024, 3, 8, "Breakout", "100"),
                 Choice(2024, 3, 8, "Scalp", "-50"),
                 Choice(2024, 3, 8, "Breakout", "100")>>),
      TradesOf(<<Choice(2024, 3, 4, "Breakout", "100"),
                 Choice(2024, 3, 4, "Breakout", "abc"),
                 Choice(2024, 3, 4, "Breakout", "100")>>),
      TradesOf(<<Choice(2024, 3, 10, "Breakout", "100"),
                 Choice(2024, 3, 4, "Breakout", "100"),
                 Choice(2024, 3, 8, "Breakout", "100")>>) }

\* long arrays, longer than the windows of the charts: one trade every
\* stride days from 2023-11-01 on, entered in ascending or descending order
MaxRun == 31

RunStart == DaysFromCivil(2023, 11, 1)

PnlCycle == <<"100", "-50", "200">>

RunTrades(n, stride, ascending) ==
    [i \in 1..n |->
        LET k == IF ascending THEN i - 1 ELSE n - i
        IN  Trade(i, "Breakout", CivilFromDays(RunStart + k * stride),
                  PnlCycle[(k % 3) + 1])]

LongTradeInputs ==
    {RunTrades(n, stride, asc) :
        n \in {13, MaxRun}, stride \in {1, 3, 7}, asc \in BOOLEAN}

ScorerIdle ==
    /\ notes = NullNotes
    /\ parsed = NoResult
    /\ scoreArg = JsUndefined
    /\ adherenceScore = Num(0)
    /\ levelArg = Num(0)
    /\ adherenceLevel = "<none>"

ChartsInit ==
    /\ ScorerIdle
    /\ PagesIdle
    /\ trades \in ShortTradeInputs \cup MixedTradeInputs \cup LongTradeInputs
    /\ strategies \in {<<>>, StrategyList}
    /\ tzOffset \in TzOffsets
    /\ checklistItems = <<>>
    /\ adherenceChart = NotRenderedCohorts
    /\ freqChart = [rendered |-> FALSE, weeklyData |-> <<>>, chartData |-> <<>>]
    /\ pnlChart = [rendered |-> FALSE, dailyData |-> <<>>, chartData |-> <<>>]
    /\ moodChart = [rendered |-> FALSE, dailyMoodData |-> <<>>, chartData |-> <<>>]

\* a component computes its data on every render, also on a re-render
RenderTradeFrequencyChart ==
    /\ LET wd == weeklyData(trades, strategies, tzOffset)
       IN  freqChart' = [rendered |-> TRUE, weeklyData |-> wd,
                         chartData |-> WeeklyChartData(wd, tzOffset)]
    /\ UNCHANGED <<scorerVars, inputVars, cohortVars, pageVars, hookVars, pnlChart, moodChart>>

\* a render whose reduce resumes from the entries of the previous render
RenderPnLChartResumes ==
    /\ LET act == getActiveStrategyTrades(trades, strategies)
           dd == DailyReduce(pnlChart.dailyData, act, 1, Len(act))
       IN  pnlChart' = [rendered |-> TRUE, dailyData |-> dd,
                        chartData |-> PnLChartData(dd, tzOffset)]
    /\ UNCHANGED <<scorerVars, inputVars, cohortVars, pageVars, hookVars, freqChart, moodChart>>

RenderPnLChart ==
    /\ LET dd == dailyData(trades, strategies)
       IN  pnlChart' = [rendered |-> TRUE, dailyData |-> dd,
                        chartData |-> PnLChartData(dd, tzOffset)]
    /\ UNCHANGED <<scorerVars, inputVars, cohortVars, pageVars, hookVars, freqChart, moodChart>>

RenderPsychologyMoodTracker ==
    /\ LET md == dailyMoodData(trades, strategies)
       IN  moodChart' = [rendered |-> TRUE, dailyMoodData |-> md,
                         chartData |-> MoodChartData(md, tzOffset)]
    /\ UNCHANGED <<scorerVars, inputVars, cohortVars, pageVars, hookVars, freqChart, pnlChart>>

ChartsNext ==
    \/ RenderTradeFrequencyChart
    \/ RenderPnLChart
    \/ RenderPsychologyMoodTracker

SpecCharts == ChartsInit /\ [][ChartsNext]_vars

-----------------------------------------------------------------------------
(* Specification of the mood scores: trades with an emotion label, or      *)
(* without one, are drawn at the start; PsychologyMoodTracker computes its *)
(* data when it renders.                                                   *)

EmotionChoice(d, strategy, emotion) ==
    [tradeDate |-> [y |-> 2024, m |-> 3, d |-> d], strategy |-> strategy,
     emotion |-> emotion]

\* the trades a mood array is made of: every label of the vocabulary, no
\* label, an empty one, labels outside the vocabulary, a second day, a
\* trade of a strategy under test
EmotionChoices ==
    {EmotionChoice(4, "Breakout", e) :
        e \in {"Confident", "Excited", "Disciplined", "Neutral", "Anxious",
               "Fearful", "Greedy", Absent, "", "Bored", "constructor", "toString"}}
    \cup {EmotionChoice(8, "Breakout", "Confident"),
          EmotionChoice(8, "Breakout", "Fearful"),
          EmotionChoice(4, "Scalp", "Greedy")}

MoodTradesOf(c) ==
    [i \in 1..Len(c) |->
        [id |-> i, strategy |-> c[i].strategy, tradeDate |-> c[i].tradeDate,
         entryPrice |-> "100", exitPrice |-> Absent, stopLoss |-> Absent,
         quantity |-> 2, profitLoss |-> "100", emotion |-> c[i].emotion,
         notes |-> NullNotes]]

MaxMood == 2

MoodTradeInputs ==
    UNION {{MoodTradesOf(c) : c \in [1..n -> EmotionChoices]} : n \in 0..MaxMood}

MoodInit ==
    /\ ScorerIdle
    /\ PagesIdle
    /\ trades \in MoodTradeInputs
    /\ strategies \in {<<>>, StrategyList}
    /\ tzOffset = 0
    /\ checklistItems = <<>>
    /\ adherenceChart = NotRenderedCohorts
    /\ freqChart = [rendered |-> FALSE, weeklyData |-> <<>>, chartData |-> <<>>]
    /\ pnlChart = [rendered |-> FALSE, dailyData |-> <<>>, chartData |-> <<>>]
    /\ moodChart = [rendered |-> FALSE, dailyMoodData |-> <<>>, chartData |-> <<>>]

MoodNext == RenderPsychologyMoodTracker

SpecMood == MoodInit /\ [][MoodNext]_vars

-----------------------------------------------------------------------------
(* Specification of RiskRewardChart: trades with or without entry, exit    *)
(* and stop-loss prices are drawn at the start; the chart computes its     *)
(* data when it renders.                                                   *)

PriceChoice(strategy, entry, exit, stop, pnl) ==
    [strategy |-> strategy, entryPrice |-> entry, exitPrice |-> exit,
     stopLoss |-> stop, profitLoss |-> pnl]

\* the trades a risk-reward array is made of: a long and a short trade, a
\* stop at the entry (no risk), an exit at the entry (no reward), each price
\* missing in turn, a stop-loss of 0 as a number and as text, an empty
\* stop-loss, an unparseable entry, a trade of a strategy under test
PriceChoices ==
    { PriceChoice("Breakout", "100", "110", "95", "100"),
      PriceChoice("Breakout", "100", "90", "105", "200"),
      PriceChoice("Breakout", "100", "110", "100", "100"),
      PriceChoice("Breakout", "100", "100", "95", "-50"),
      PriceChoice("Breakout", "100", "110", Absent, "100"),
      PriceChoice("Breakout", "100", Absent, "95", "100"),
      PriceChoice("Breakout", Absent, "110", "95", "100"),
      PriceChoice("Breakout", "100", "110", NumberZero, "100"),
      PriceChoice("Breakout", "100", "110", "0", "100"),
      PriceChoice("Breakout", "100", "110", "", "100"),
      PriceChoice("Breakout", "abc", "110", "95", "100"),
      PriceChoice("Scalp", "100", "110", "95", "100") }

PricedTradesOf(c) ==
    [i \in 1..Len(c) |->
        [id |-> i, strategy |-> c[i].strategy,
         tradeDate |-> [y |-> 2024, m |-> 3, d |-> 4],
         entryPrice |-> c[i].entryPrice, exitPrice |-> c[i].exitPrice,
         stopLoss |-> c[i].stopLoss, quantity |-> 2,
         profitLoss |-> c[i].profitLoss, emotion |-> Absent, notes |-> NullNotes]]

MaxPriced == 2

PricedTradeInputs ==
    UNION {{PricedTradesOf(c) : c \in [1..n -> PriceChoices]} : n \in 0..MaxPriced}

RiskRewardInit ==
    /\ ScorerIdle
    /\ PagesIdle
    /\ trades \in PricedTradeInputs
    /\ strategies \in {<<>>, StrategyList}
    /\ tzOffset = 0
    /\ checklistItems = <<>>
    /\ adherenceChart = NotRenderedCohorts
    /\ freqChart = [rendered |-> FALSE, weeklyData |-> <<>>, chartData |-> <<>>]
    /\ pnlChart = [rendered |-> FALSE, dailyData |-> <<>>, chartData |-> <<>>]
    /\ moodChart = [rendered |-> FALSE, dailyMoodData |-> <<>>, chartData |-> <<>>]

RenderRiskRewardChart ==
    /\ LET data == riskRewardData(trades, strategies)
       IN  riskRewardChart' = [rendered |-> TRUE, riskRewardData |-> data,
                               avgRiskReward |-> avgRiskReward(data)]
    /\ UNCHANGED <<scorerVars, inputVars, chartVars, cohortVars, hookVars, discipline>>

RiskRewardNext == RenderRiskRewardChart

SpecRiskReward == RiskRewardInit /\ [][RiskRewardNext]_vars

-----------------------------------------------------------------------------
(* ChecklistAdherenceChart *)

\* calculateTotalPnL (lib/calculations): the sum of the parsed profit/loss
\* of the trades, 0 for a missing or unparseable one
RECURSIVE SumPnl(_, _)
SumPnl(ts, i) ==
    IF i > Len(ts) THEN Num(0)
    ELSE LET v == ParseFieldOrZero(ts[i].profitLoss)
         IN  NumAdd(IF v.nan THEN Num(0) ELSE v, SumPnl(ts, i + 1))

calculateTotalPnL(ts, strats) == SumPnl(ts, 1)

\* the callback of activeTrades.map: the trade (its own fields under trade)
\* with the parsed checklist, the score, the level and the parsed P&L
TradeWithChecklist(trade) ==
    LET p == parseTradeNotes(trade.notes)
        pnl == ParseFieldOrZero(trade.profitLoss)
    IN  [trade |-> trade,
         checklist |-> ChecklistOf(p),
         userNotes |-> p.userNotes,
         adherenceScore |-> ScoreOf(p),
         adherenceLevel |-> getAdherenceLevel(ScoreOf(p)),
         pnl |-> pnl,
         isWin |-> NumGt(pnl, Num(0))]

tradesWithChecklist(ts, strats) ==
    LET act == getActiveStrategyTrades(ts, strats)
    IN  [i \in 1..Len(act) |-> TradeWithChecklist(act[i])]

\* one step of the reduce into adherenceGroups (properties in insertion order)
GroupStep(acc, t) ==
    LET level == t.adherenceLevel
        acc1 == IF IndexOfKey(acc, level) = 0
                THEN Append(acc, [key |-> level, trades |-> <<>>])
                ELSE acc
        i == IndexOfKey(acc1, level)
    IN  [acc1 EXCEPT ![i].trades = Append(@, t)]

RECURSIVE GroupReduce(_, _, _)
GroupReduce(acc, twc, i) ==
    IF i > Len(twc) THEN acc
    ELSE GroupReduce(GroupStep(acc, twc[i]), twc, i + 1)

adherenceGroups(twc) == GroupReduce(<<>>, twc, 1)

\* a rank that orders the levels by their names
getAdherenceSortOrderLexical(level) ==
    CASE level = "Excellent" -> 1
      [] level = "Fair" -> 2
      [] level = "Good" -> 3
      [] level = "Poor" -> 4
      [] level = "Very Poor" -> 5
      [] OTHER -> 6

getAdherenceSortOrder(level) ==
    CASE level = "Excellent" -> 1
      [] level = "Good" -> 2
      [] level = "Fair" -> 3
      [] level = "Poor" -> 4
      [] level = "Very Poor" -> 5
      [] OTHER -> 6

getAdherenceColor(level) ==
    CASE level = "Excellent" -> "hsl(142, 76%, 36%)"
      [] level = "Good" -> "hsl(45, 93%, 47%)"
      [] level = "Fair" -> "hsl(221, 83%, 53%)"
      [] level = "Poor" -> "hsl(0, 84%, 60%)"
      [] level = "Very Poor" -> "hsl(0, 70%, 50%)"
      [] OTHER -> "hsl(210, 40%, 60%)"

\* the trades of a cohort without the fields the chart added
RawTrades(cohort) == [i \in 1..Len(cohort) |-> cohort[i].trade]

WinCount(cohort) == Cardinality({i \in 1..Len(cohort) : cohort[i].isWin})

\* wins / length * 100, 0 for an empty cohort
WinRate(cohort) ==
    IF Len(cohort) > 0 THEN Rat(WinCount(cohort) * 100, Len(cohort)) ELSE Num(0)

\* the total P&L of a cohort, not divided by its length
AvgPnLUndivided(cohort, strats) ==
    IF Len(cohort) > 0 THEN calculateTotalPnL(RawTrades(cohort), strats) ELSE Num(0)

\* total P&L / length, 0 for an empty cohort
AvgPnL(cohort, strats) ==
    IF Len(cohort) > 0
    THEN NumDivInt(calculateTotalPnL(RawTrades(cohort), strats), Len(cohort))
    ELSE Num(0)

\* the rows of the groups in the order the reduce met the levels, not sorted
adherenceDataUnsorted(groups, strats) ==
    [g \in 1..Len(groups) |->
        [level |-> groups[g].key,
         trades |-> Len(groups[g].trades),
         totalPnL |-> calculateTotalPnL(RawTrades(groups[g].trades), strats),
         winRate |-> WinRate(groups[g].trades),
         avgPnL |-> AvgPnL(groups[g].trades, strats),
         color |-> getAdherenceColor(groups[g].key)]]

\* Object.entries(adherenceGroups).map(...).sort(by getAdherenceSortOrder)
adherenceData(groups, strats) ==
    LET rows == [g \in 1..Len(groups) |->
                    [level |-> groups[g].key,
                     trades |-> Len(groups[g].trades),
                     totalPnL |-> calculateTotalPnL(RawTrades(groups[g].trades), strats),
                     winRate |-> WinRate(groups[g].trades),
                     avgPnL |-> AvgPnL(groups[g].trades, strats),
                     color |-> getAdherenceColor(groups[g].key)]]
    IN  SortByKeys(rows, [g \in 1..Len(rows) |-> getAdherenceSortOrder(rows[g].level)])

\* trade.checklist[id] === true, === false
HoldsTrue(t, id) == id \in DOMAIN t.checklist.ent /\ t.checklist.ent[id] = "true"
HoldsFalse(t, id) == id \in DOMAIN t.checklist.ent /\ t.checklist.ent[id] = "false"

\* the cohorts of an item: the trades whose checklist holds true, holds false
followedTrades(twc, id) ==
    FilterSeq(twc, [i \in 1..Len(twc) |-> HoldsTrue(twc[i], id)], 1, Len(twc))

\* the cohort that skipped an item taken as every trade that did not follow it
notFollowedTradesNotTrue(twc, id) ==
    FilterSeq(twc, [i \in 1..Len(twc) |-> ~HoldsTrue(twc[i], id)], 1, Len(twc))

notFollowedTrades(twc, id) ==
    FilterSeq(twc, [i \in 1..Len(twc) |-> HoldsFalse(twc[i], id)], 1, Len(twc))

\* the rows of every defined item, also of those no trade recorded
itemAnalysisUnfiltered(items, twc, strats) ==
    LET rows == [k \in 1..Len(items) |->
            LET followedCohort == followedTrades(twc, items[k].id)
                notFollowedCohort == notFollowedTrades(twc, items[k].id)
            IN  [id |-> items[k].id,
                 item |-> items[k].name,
                 category |-> items[k].category,
                 followedTrades |-> Len(followedCohort),
                 notFollowedTrades |-> Len(notFollowedCohort),
                 followedPnL |-> AvgPnL(followedCohort, strats),
                 notFollowedPnL |-> AvgPnL(notFollowedCohort, strats),
                 followedWinRate |-> WinRate(followedCohort),
                 notFollowedWinRate |-> WinRate(notFollowedCohort),
                 impact |-> NumSub(AvgPnL(followedCohort, strats),
                                   AvgPnL(notFollowedCohort, strats)),
                 winRateImpact |-> NumSub(WinRate(followedCohort),
                                          WinRate(notFollowedCohort))]]
    IN  rows

itemAnalysis(items, twc, strats) ==
    LET rows == [k \in 1..Len(items) |->
            LET followedCohort == followedTrades(twc, items[k].id)
                notFollowedCohort == notFollowedTrades(twc, items[k].id)
            IN  [id |-> items[k].id,
                 item |-> items[k].name,
                 category |-> items[k].category,
                 followedTrades |-> Len(followedCohort),
                 notFollowedTrades |-> Len(notFollowedCohort),
                 followedPnL |-> AvgPnL(followedCohort, strats),
                 notFollowedPnL |-> AvgPnL(notFollowedCohort, strats),
                 followedWinRate |-> WinRate(followedCohort),
                 notFollowedWinRate |-> WinRate(notFollowedCohort),
                 impact |-> NumSub(AvgPnL(followedCohort, strats),
                                   AvgPnL(notFollowedCohort, strats)),
                 winRateImpact |-> NumSub(WinRate(followedCohort),
                                          WinRate(notFollowedCohort))]]
    IN  FilterSeq(rows, [k \in 1..Len(rows) |->
                            rows[k].followedTrades > 0 \/ rows[k].notFollowedTrades > 0],
                  1, Len(rows))

-----------------------------------------------------------------------------
(* Discipline page *)

\* Array.prototype.sort with the comparator key(b) - key(a) on numbers:
\* a stable sort in descending order of the keys (insertion of e behind the
\* elements whose key is not smaller; in a sorted array those are a prefix)
InsertByNumKeyDesc(sorted, e, k) ==
    LET n == Len(sorted.s)
        p == Cardinality({j \in 1..n : NumGe(sorted.k[j], k)})
    IN  [s |-> SubSeq(sorted.s, 1, p) \o <<e>> \o SubSeq(sorted.s, p + 1, n),
         k |-> SubSeq(sorted.k, 1, p) \o <<k>> \o SubSeq(sorted.k, p + 1, n)]

RECURSIVE SortRangeDesc(_, _, _, _, _)
SortRangeDesc(sorted, s, keys, lo, hi) ==
    IF lo > hi THEN sorted
    ELSE IF lo = hi THEN InsertByNumKeyDesc(sorted, s[lo], keys[lo])
    ELSE LET mid == (lo + hi) \div 2
             first == SortRangeDesc(sorted, s, keys, lo, mid)
         IN  IF Len(first.s) > 0 THEN SortRangeDesc(first, s, keys, mid + 1, hi)
             ELSE first

\* no sort: the elements in the order they have
SortByNumKeysKeepsOrder(s, keys) == s

SortByNumKeysDesc(s, keys) ==
    SortRangeDesc([s |-> <<>>, k |-> <<>>], s, keys, 1, Len(s)).s

\* Array.prototype.slice(0, n)
SliceFirst(s, n) == IF Len(s) <= n THEN s ELSE SubSeq(s, 1, n)

TopItemsWindow == 5

\* the number of days of a time range
RangeDays(timeRange) ==
    CASE timeRange = "7d" -> 7
      [] timeRange = "30d" -> 30
      [] timeRange = "90d" -> 90
      [] timeRange = "1y" -> 365
      [] OTHER -> 0

\* the trades of the selected time range; now is the instant of the render,
\* a custom date is <<>> (empty) or <<date>>; new Date(trade.tradeDate) is
\* midnight UTC of the date
filteredTrades(ts, timeRange, now, customStartDate, customEndDate) ==
    IF timeRange \in {"7d", "30d", "90d", "1y"}
    THEN LET startDate == now - RangeDays(timeRange) * MinutesPerDay
         IN  FilterSeq(ts, [i \in 1..Len(ts) |->
                              DateFromDateOnlyText(ts[i].tradeDate) >= startDate],
                       1, Len(ts))
    ELSE IF timeRange = "custom" /\ customStartDate # <<>> /\ customEndDate # <<>>
    THEN FilterSeq(ts, [i \in 1..Len(ts) |->
                          /\ DateFromDateOnlyText(ts[i].tradeDate)
                                >= DateFromDateOnlyText(customStartDate[1])
                          /\ DateFromDateOnlyText(ts[i].tradeDate)
                                <= DateFromDateOnlyText(customEndDate[1])],
                   1, Len(ts))
    ELSE ts

\* filteredTrades.map(...): the same callback as in ChecklistAdherenceChart
DisciplineTradesWithChecklist(ts) ==
    [i \in 1..Len(ts) |-> TradeWithChecklist(ts[i])]

\* the trades whose checklist has at least one key
\* no filter: every trade, also one whose checklist has no key
tradesWithChecklistDataKeepsAll(twc) == twc

tradesWithChecklistData(twc) ==
    FilterSeq(twc, [i \in 1..Len(twc) |-> ObjectValuesLen(twc[i].checklist) > 0],
              1, Len(twc))

highAdherenceTradesData(data) ==
    FilterSeq(data, [i \in 1..Len(data) |-> NumGe(data[i].adherenceScore, Num(75))],
              1, Len(data))

lowAdherenceTradesData(data) ==
    FilterSeq(data, [i \in 1..Len(data) |-> NumLt(data[i].adherenceScore, Num(50))],
              1, Len(data))

\* calculateWinRate (lib/calculations): count(pnl > 0) / count * 100, 0 for
\* no trades
calculateWinRate(ts, strats) ==
    IF Len(ts) = 0 THEN Num(0)
    ELSE Rat(Cardinality({i \in 1..Len(ts) :
                             NumGt(ParseFieldOrZero(ts[i].profitLoss), Num(0))}) * 100,
             Len(ts))

\* the sum of the scores / length, 0 when no trade has checklist data
avgAdherenceScore(data) ==
    IF Len(data) > 0
    THEN NumDivInt(SumNums([i \in 1..Len(data) |-> data[i].adherenceScore], 1),
                   Len(data))
    ELSE Num(0)

DistributionLevels == <<"Excellent", "Good", "Fair", "Poor", "Very Poor">>

\* Adherence Distribution: per level the number of trades and their share
adherenceDistribution(data) ==
    [l \in 1..Len(DistributionLevels) |->
        LET levelTrades ==
                FilterSeq(data, [i \in 1..Len(data) |->
                                    data[i].adherenceLevel = DistributionLevels[l]],
                          1, Len(data))
        IN  [level |-> DistributionLevels[l],
             trades |-> Len(levelTrades),
             percentage |-> IF Len(data) > 0
                            THEN Rat(Len(levelTrades) * 100, Len(data))
                            ELSE Num(0)]]

\* Top Impact Items: the items with a trade in either cohort, by |impact|
\* descending, the first five
topImpactItems(items, data, strats) ==
    LET rows == [k \in 1..Len(items) |->
            LET followedCohort == followedTrades(data, items[k].id)
                notFollowedCohort == notFollowedTrades(data, items[k].id)
            IN  [id |-> items[k].id,
                 name |-> items[k].name,
                 category |-> items[k].category,
                 impact |-> NumSub(AvgPnL(followedCohort, strats),
                                   AvgPnL(notFollowedCohort, strats)),
                 followedTrades |-> Len(followedCohort),
                 notFollowedTrades |-> Len(notFollowedCohort)]]
        shown == FilterSeq(rows, [k \in 1..Len(rows) |->
                                    rows[k].followedTrades > 0
                                        \/ rows[k].notFollowedTrades > 0],
                           1, Len(rows))
    IN  SliceFirst(SortByNumKeysDesc(shown, [k \in 1..Len(shown) |->
                                                NumAbs(shown[k].impact)]),
                   TopItemsWindow)

-----------------------------------------------------------------------------
(* Specification of the cohort comparison: trades whose notes may carry a  *)
(* checklist, the strategies and the item definitions are drawn at the     *)
(* start; ChecklistAdherenceChart computes its data when it renders.       *)

ChecklistItem(id, name, category) ==
    [id |-> id, name |-> name, category |-> category]

\* three of the default items of loadChecklistItems
ItemDefinitions ==
    <<ChecklistItem("market-trend", "Checked overall market trend", "pre-trade"),
      ChecklistItem("risk-reward", "Risk-reward ratio calculated", "pre-trade"),
      ChecklistItem("exit-plan", "Exit plan executed", "post-trade")>>

CohortTrade(id, strategy, pnl, nt) ==
    [id |-> id, strategy |-> strategy, tradeDate |-> [y |-> 2024, m |-> 3, d |-> 4],
     entryPrice |-> "100", exitPrice |-> Absent, stopLoss |-> Absent,
     quantity |-> 2, profitLoss |-> pnl, emotion |-> Absent, notes |-> nt]

MapOf(ids, followed) ==
    [id \in ids |-> IF id \in followed THEN "true" ELSE "false"]

\* the trades a cohort array is made of: notes without a checklist (null,
\* plain text, an envelope with an empty map), envelopes of every band,
\* a checklist that is not a map, a trade of a strategy under test
CohortChoices ==
    { [strategy |-> "Breakout", profitLoss |-> "100", notes |-> NullNotes],
      [strategy |-> "Breakout", profitLoss |-> "-50",
       notes |-> PlainNotes("Entered late, exit was rushed", "invalid")],
      [strategy |-> "Breakout", profitLoss |-> "200",
       notes |-> serializeTradeNotes(EmptyEntries, "held overnight")],
      [strategy |-> "Breakout", profitLoss |-> "200",
       notes |-> serializeTradeNotes(PrefixMap(4, 4), "")],
      [strategy |-> "Breakout", profitLoss |-> "100",
       notes |-> serializeTradeNotes(PrefixMap(4, 3), "")],
      [strategy |-> "Breakout", profitLoss |-> "-50",
       notes |-> serializeTradeNotes(MapOf({"market-trend", "risk-reward"},
                                           {"market-trend"}), "")],
      [strategy |-> "Breakout", profitLoss |-> "abc",
       notes |-> serializeTradeNotes(MapOf({"market-trend", "risk-reward", "exit-plan"},
                                           {"risk-reward"}), "")],
      [strategy |-> "Breakout", profitLoss |-> "100",
       notes |-> serializeTradeNotes(MapOf({"exit-plan"}, {}), "")],
      [strategy |-> "Breakout", profitLoss |-> "100",
       notes |-> ObjectNotes("{\"checklist\":\"yes\"}",
                             JsString([k \in {"0", "1", "2"} |-> "str"]), "")],
      [strategy |-> "Scalp", profitLoss |-> "200",
       notes |-> serializeTradeNotes(PrefixMap(4, 4), "")] }

MaxCohort == 3

CohortTradeInputs ==
    UNION {{[i \in 1..n |-> CohortTrade(i, c[i].strategy, c[i].profitLoss, c[i].notes)]
              : c \in [1..n -> CohortChoices]} : n \in 0..MaxCohort}

CohortInit ==
    /\ ScorerIdle
    /\ PagesIdle
    /\ trades \in CohortTradeInputs
    /\ strategies \in {<<>>, StrategyList}
    /\ tzOffset = 0
    /\ checklistItems \in {ItemDefinitions, SubSeq(ItemDefinitions, 1, 2)}
    /\ adherenceChart = NotRenderedCohorts
    /\ freqChart = [rendered |-> FALSE, weeklyData |-> <<>>, chartData |-> <<>>]
    /\ pnlChart = [rendered |-> FALSE, dailyData |-> <<>>, chartData |-> <<>>]
    /\ moodChart = [rendered |-> FALSE, dailyMoodData |-> <<>>, chartData |-> <<>>]

RenderChecklistAdherenceChart ==
    /\ LET twc == tradesWithChecklist(trades, strategies)
           groups == adherenceGroups(twc)
       IN  adherenceChart' =
               [rendered |-> TRUE,
                tradesWithChecklist |-> twc,
                adherenceGroups |-> groups,
                adherenceData |-> adherenceData(groups, strategies),
                itemAnalysis |-> itemAnalysis(checklistItems, twc, strategies)]
    /\ UNCHANGED <<scorerVars, inputVars, chartVars, pageVars, hookVars>>

CohortNext == RenderChecklistAdherenceChart

SpecCohort == CohortInit /\ [][CohortNext]_vars

-----------------------------------------------------------------------------
(* Specification of the cohort comparison over reordered arrays: the       *)
(* trades are drawn from a few choices, so that every arrangement of the   *)
(* same trades is an input, and ChecklistAdherenceChart renders.           *)

\* two trades of the same band with different P&L, a trade of two further
\* bands, a trade without a checklist, a trade of a strategy under test
OrderChoices ==
    { [strategy |-> "Breakout", profitLoss |-> "200",
       notes |-> serializeTradeNotes(PrefixMap(4, 4), "")],
      [strategy |-> "Breakout", profitLoss |-> "-50",
       notes |-> serializeTradeNotes(MapOf({"market-trend"}, {"market-trend"}), "")],
      [strategy |-> "Breakout", profitLoss |-> "100",
       notes |-> serializeTradeNotes(MapOf({"market-trend", "risk-reward"},
                                           {"market-trend"}), "")],
      [strategy |-> "Breakout", profitLoss |-> "abc",
       notes |-> serializeTradeNotes(MapOf({"exit-plan"}, {}), "")],
      [strategy |-> "Breakout", profitLoss |-> "100", notes |-> NullNotes],
      [strategy |-> "Scalp", profitLoss |-> "200",
       notes |-> serializeTradeNotes(PrefixMap(4, 3), "")] }

MaxOrder == 3

OrderTradeInputs ==
    UNION {{[i \in 1..n |-> CohortTrade(i, c[i].strategy, c[i].profitLoss, c[i].notes)]
              : c \in [1..n -> OrderChoices]} : n \in 0..MaxOrder}

OrderInit ==
    /\ ScorerIdle
    /\ PagesIdle
    /\ trades \in OrderTradeInputs
    /\ strategies \in {<<>>, StrategyList}
    /\ tzOffset = 0
    /\ checklistItems = ItemDefinitions
    /\ adherenceChart = NotRenderedCohorts
    /\ freqChart = [rendered |-> FALSE, weeklyData |-> <<>>, chartData |-> <<>>]
    /\ pnlChart = [rendered |-> FALSE, dailyData |-> <<>>, chartData |-> <<>>]
    /\ moodChart = [rendered |-> FALSE, dailyMoodData |-> <<>>, chartData |-> <<>>]

OrderNext == RenderChecklistAdherenceChart

SpecOrder == OrderInit /\ [][OrderNext]_vars

-----------------------------------------------------------------------------
(* Specification of re-rendering: the trades carry every field an          *)
(* aggregator reads; each of the five chart components renders, and        *)
(* renders again, on the same props.                                       *)

RerunChoice(y, m, d, strategy, pnl, entry, exit, stop, emotion, nt) ==
    [tradeDate |-> [y |-> y, m |-> m, d |-> d], strategy |-> strategy,
     profitLoss |-> pnl, entryPrice |-> entry, exitPrice |-> exit,
     stopLoss |-> stop, emotion |-> emotion, notes |-> nt]

\* two trades of one day in different bands, a trade with an unparseable
\* amount and no prices, emotion or notes, a trade of a strategy under test,
\* a trade of the last week of a year with zero risk and plain notes
RerunChoices ==
    { RerunChoice(2024, 3, 4, "Breakout", "100", "100", "110", "95", "Confident",
                  serializeTradeNotes(PrefixMap(4, 4), "")),
      RerunChoice(2024, 3, 4, "Breakout", "-50", "100", "90", "105", "Fearful",
                  serializeTradeNotes(MapOf({"market-trend", "risk-reward"},
                                            {"market-trend"}), "")),
      RerunChoice(2024, 3, 8, "Breakout", "abc", "100", Absent, Absent, Absent,
                  NullNotes),
      RerunChoice(2024, 3, 10, "Scalp", "200", "100", "110", "95", "Greedy",
                  serializeTradeNotes(PrefixMap(4, 3), "")),
      RerunChoice(2023, 12, 31, "Breakout", "200", "100", "110", "100", "Excited",
                  PlainNotes("Entered late, exit was rushed", "invalid")) }

RerunTradesOf(c) ==
    [i \in 1..Len(c) |->
        [id |-> i, strategy |-> c[i].strategy, tradeDate |-> c[i].tradeDate,
         entryPrice |-> c[i].entryPrice, exitPrice |-> c[i].exitPrice,
         stopLoss |-> c[i].stopLoss, quantity |-> 2,
         profitLoss |-> c[i].profitLoss, emotion |-> c[i].emotion,
         notes |-> c[i].notes]]

MaxRerun == 2

RerunTradeInputs ==
    UNION {{RerunTradesOf(c) : c \in [1..n -> RerunChoices]} : n \in 0..MaxRerun}

RerunInit ==
    /\ ScorerIdle
    /\ PagesIdle
    /\ trades \in RerunTradeInputs
    /\ strategies \in {<<>>, StrategyList}
    /\ tzOffset \in TzOffsets
    /\ checklistItems = ItemDefinitions
    /\ adherenceChart = NotRenderedCohorts
    /\ freqChart = [rendered |-> FALSE, weeklyData |-> <<>>, chartData |-> <<>>]
    /\ pnlChart = [rendered |-> FALSE, dailyData |-> <<>>, chartData |-> <<>>]
    /\ moodChart = [rendered |-> FALSE, dailyMoodData |-> <<>>, chartData |-> <<>>]

RerunNext ==
    \/ RenderTradeFrequencyChart
    \/ RenderPnLChart
    \/ RenderPsychologyMoodTracker
    \/ RenderRiskRewardChart
    \/ RenderChecklistAdherenceChart

SpecRerun == RerunInit /\ [][RerunNext]_vars

-----------------------------------------------------------------------------
(* Specification of the Discipline page: the trades, the strategies and    *)
(* the item definitions are drawn at the start; the page, the              *)
(* ChecklistAdherenceChart and the RiskRewardChart compute their data when *)
(* they render.                                                            *)

\* the eight default items of loadChecklistItems
DefaultItems ==
    <<ChecklistItem("market-trend", "Checked overall market trend", "pre-trade"),
      ChecklistItem("volume-confirmation", "Volume confirmation present", "pre-trade"),
      ChecklistItem("risk-reward", "Risk-reward ratio calculated", "pre-trade"),
      ChecklistItem("stop-loss-set", "Stop loss level defined", "pre-trade"),
      ChecklistItem("position-size", "Position size calculated", "pre-trade"),
      ChecklistItem("exit-plan", "Exit plan executed", "post-trade"),
      ChecklistItem("emotion-control", "Emotions controlled", "post-trade"),
      ChecklistItem("lesson-learned", "Key lesson identified", "post-trade")>>

PageChoice(strategy, pnl, nt) ==
    [strategy |-> strategy, profitLoss |-> pnl, notes |-> nt]

\* the trades a short array of the page is made of: no notes, a checklist
\* of each band, an unparseable amount, a trade of a strategy under test
PageChoices ==
    { PageChoice("Breakout", "100", NullNotes),
      PageChoice("Breakout", "200", serializeTradeNotes(PrefixMap(4, 4), "")),
      PageChoice("Breakout", "100", serializeTradeNotes(PrefixMap(4, 3), "")),
      PageChoice("Breakout", "-50",
                 serializeTradeNotes(MapOf({"market-trend", "risk-reward"},
                                           {"market-trend"}), "")),
      PageChoice("Breakout", "abc",
                 serializeTradeNotes(MapOf({"market-trend", "risk-reward", "exit-plan"},
                                           {"risk-reward"}), "")),
      PageChoice("Breakout", "100", serializeTradeNotes(MapOf({"exit-plan"}, {}), "")),
      PageChoice("Scalp", "200", serializeTradeNotes(PrefixMap(4, 4), "")) }

PageTradesOf(c) ==
    [i \in 1..Len(c) |-> CohortTrade(i, c[i].strategy, c[i].profitLoss, c[i].notes)]

MaxPage == 2

ShortPageInputs ==
    UNION {{PageTradesOf(c) : c \in [1..n -> PageChoices]} : n \in 0..MaxPage}

\* longer arrays: one item followed by trades of +100 and +200 and skipped
\* by trades of -50 and +10; seven items followed by prefixes, so that
\* seven items have an impact (80, 80, 73.33, 73.33, 65, 46.67, 46.67 in
\* absolute value); three trades without a checklist; a trade without a
\* checklist and trades scoring 100, 0 and 50
LongPageInputs ==
    { PageTradesOf(<<
          PageChoice("Breakout", "100",
                     serializeTradeNotes(MapOf({"market-trend"}, {"market-trend"}), "")),
          PageChoice("Breakout", "-50",
                     serializeTradeNotes(MapOf({"market-trend"}, {}), "")),
          PageChoice("Breakout", "200",
                     serializeTradeNotes(MapOf({"market-trend"}, {"market-trend"}), "")),
          PageChoice("Breakout", "10",
                     serializeTradeNotes(MapOf({"market-trend"}, {}), ""))>>),
      PageTradesOf(<<
          PageChoice("Breakout", "100", serializeTradeNotes(PrefixMap(7, 1), "")),
          PageChoice("Breakout", "-50", serializeTradeNotes(PrefixMap(7, 3), "")),
          PageChoice("Breakout", "200", serializeTradeNotes(PrefixMap(7, 5), "")),
          PageChoice("Breakout", "10", serializeTradeNotes(PrefixMap(7, 7), ""))>>),
      PageTradesOf(<<
          PageChoice("Breakout", "100", NullNotes),
          PageChoice("Breakout", "-50",
                     PlainNotes("Entered late, exit was rushed", "invalid")),
          PageChoice("Breakout", "200",
                     serializeTradeNotes(EmptyEntries, "held overnight"))>>),
      PageTradesOf(<<
          PageChoice("Breakout", "100", NullNotes),
          PageChoice("Breakout", "200", serializeTradeNotes(PrefixMap(4, 4), "")),
          PageChoice("Breakout", "100",
                     serializeTradeNotes(MapOf({"exit-plan"}, {}), "")),
          PageChoice("Breakout", "-50",
                     serializeTradeNotes(MapOf({"market-trend", "risk-reward"},
                                               {"market-trend"}), ""))>>) }

\* the instant of the render: 2024-03-11 00:00 UTC
RenderInstant == DaysFromCivil(2024, 3, 11) * MinutesPerDay

DisciplineInit ==
    /\ ScorerIdle
    /\ PagesIdle
    /\ trades \in ShortPageInputs \cup LongPageInputs
    /\ strategies \in {<<>>, StrategyList}
    /\ tzOffset = 0
    /\ checklistItems \in {<<>>, SubSeq(ItemDefinitions, 1, 2), ItemDefinitions,
                           DefaultItems}
    /\ adherenceChart = NotRenderedCohorts
    /\ freqChart = [rendered |-> FALSE, weeklyData |-> <<>>, chartData |-> <<>>]
    /\ pnlChart = [rendered |-> FALSE, dailyData |-> <<>>, chartData |-> <<>>]
    /\ moodChart = [rendered |-> FALSE, dailyMoodData |-> <<>>, chartData |-> <<>>]

\* the page returns its empty state when no checklist item is defined;
\* otherwise it also computes the distribution and the top impact items
RenderDiscipline ==
    /\ ~discipline.rendered
    /\ LET filtered == filteredTrades(trades, discipline.timeRange, RenderInstant,
                                      discipline.customStartDate,
                                      discipline.customEndDate)
           data == tradesWithChecklistData(DisciplineTradesWithChecklist(filtered))
           high == highAdherenceTradesData(data)
           low == lowAdherenceTradesData(data)
           avg == avgAdherenceScore(data)
           hasItems == Len(checklistItems) > 0
       IN  discipline' =
               [discipline EXCEPT
                   !.rendered = TRUE,
                   !.tradesWithChecklistData = data,
                   !.highAdherenceTradesData = high,
                   !.lowAdherenceTradesData = low,
                   !.highAdherencePnL = calculateTotalPnL(RawTrades(high), strategies),
                   !.lowAdherencePnL = calculateTotalPnL(RawTrades(low), strategies),
                   !.highAdherenceWinRate = calculateWinRate(RawTrades(high), strategies),
                   !.lowAdherenceWinRate = calculateWinRate(RawTrades(low), strategies),
                   !.avgAdherenceScore = avg,
                   !.adherenceLevel = getAdherenceLevel(avg),
                   !.hasItems = hasItems,
                   !.adherenceDistribution =
                       IF hasItems THEN adherenceDistribution(data) ELSE <<>>,
                   !.topImpactItems =
                       IF hasItems THEN topImpactItems(checklistItems, data, strategies)
                       ELSE <<>>]
    /\ UNCHANGED <<scorerVars, inputVars, chartVars, cohortVars, hookVars, riskRewardChart>>

DisciplineNext ==
    \/ RenderDiscipline
    \/ RenderChecklistAdherenceChart
    \/ RenderRiskRewardChart

SpecDiscipline == DisciplineInit /\ [][DisciplineNext]_vars

-----------------------------------------------------------------------------
(* Specification of the checklist definitions: useChecklist instances are  *)
(* mounted, load the definitions from localStorage, and add, update and    *)
(* delete definitions; each call works on the checklistItems of the render *)
(* that created it (items), the React state (state) reaches the callbacks  *)
(* with the next render.  A write to localStorage may fail.                *)

\* the value stored by setItem(STORAGE_KEY, JSON.stringify(items)): read
\* back, JSON.parse yields the items again (records of strings)
Stored(items) == [kind |-> "items", items |-> items]

\* a stored text JSON.parse throws on
CorruptStorage == [kind |-> "corrupt", items |-> <<>>]

\* a saveChecklistItems that sets the state before it writes
saveChecklistItemsStateFirst(st, items, ok) ==
    [storage |-> IF ok THEN Stored(items) ELSE st.storage,
     state |-> items,
     threw |-> FALSE]

\* saveChecklistItems: setItem, then setChecklistItems; a failing setItem
\* is caught and logged.  st is the storage and the state before the call,
\* ok tells whether setItem succeeds
saveChecklistItems(st, items, ok) ==
    [storage |-> IF ok THEN Stored(items) ELSE st.storage,
     state |-> IF ok THEN items ELSE st.state,
     threw |-> FALSE]

\* loadChecklistItems: the stored items, the default items (saved at once)
\* when nothing is stored, the empty list when the stored text does not parse
loadChecklistItems(st, ok) ==
    CASE st.storage.kind = "items" ->
            [storage |-> st.storage, state |-> st.storage.items, threw |-> FALSE]
      [] st.storage.kind = "absent" ->
            saveChecklistItems([storage |-> st.storage, state |-> DefaultItems],
                               DefaultItems, ok)
      [] OTHER ->
            [storage |-> st.storage, state |-> <<>>, threw |-> FALSE]

\* `item-${Date.now()}-${random}`: an id not generated before
GeneratedId(n) == ItemIds[8 + n]

\* [...checklistItems, newItem]
AddedItems(items, id) ==
    Append(items, ChecklistItem(id, "New rule", "pre-trade"))

\* checklistItems.map(item => item.id === id ? { ...item, ...updates } : item)
UpdatedItems(items, id, updates) ==
    [k \in 1..Len(items) |->
        IF items[k].id = id
        THEN [id |-> items[k].id, name |-> updates.name, category |-> items[k].category]
        ELSE items[k]]

\* checklistItems.filter(item => item.id !== id)
DeletedItems(items, id) ==
    FilterSeq(items, [k \in 1..Len(items) |-> items[k].id # id], 1, Len(items))

\* the ids a call is made with: the first and the last item of the list
\* the instance shows
TargetIds(items) ==
    IF Len(items) = 0 THEN {} ELSE {items[1].id, items[Len(items)].id}

MaxCalls == 3

MaxAdds == 2

NameUpdate == [name |-> "Renamed"]

\* the trades on record while the definitions change: one follows the
\* first four default items, one skips a generated item
HookTrades ==
    <<CohortTrade(1, "Breakout", "100", serializeTradeNotes(PrefixMap(4, 4), "")),
      CohortTrade(2, "Breakout", "-50",
                  serializeTradeNotes(MapOf({"market-trend", "item-1"},
                                            {"market-trend"}), ""))>>

HookInit ==
    /\ ScorerIdle
    /\ PagesOnlyIdle
    /\ trades = HookTrades
    /\ strategies = <<>>
    /\ tzOffset = 0
    /\ checklistItems = <<>>
    /\ adherenceChart = NotRenderedCohorts
    /\ freqChart = [rendered |-> FALSE, weeklyData |-> <<>>, chartData |-> <<>>]
    /\ pnlChart = [rendered |-> FALSE, dailyData |-> <<>>, chartData |-> <<>>]
    /\ moodChart = [rendered |-> FALSE, dailyMoodData |-> <<>>, chartData |-> <<>>]
    /\ storage \in {AbsentStorage, CorruptStorage, Stored(SubSeq(DefaultItems, 1, 2))}
    /\ hooks = [h \in Instances |-> Unmounted]
    /\ lastCall = NoCall
    /\ ledger = EmptyLedger

\* what every call records and leaves alone
Called(h, op, id, ok, res) ==
    /\ storage' = res.storage
    /\ lastCall' = [op |-> op, hook |-> h, id |-> id, ok |-> ok, threw |-> res.threw,
                    closure |-> hooks[h].items, stateBefore |-> hooks[h].state,
                    storageBefore |-> storage]
    /\ UNCHANGED <<scorerVars, inputVars, chartVars, cohortVars, pageVars>>

\* the mount of an instance: the first render, the effect that loads the
\* definitions, and the render that follows the load
Mount(h) ==
    \E ok \in BOOLEAN :
        LET res == loadChecklistItems([storage |-> storage, state |-> <<>>], ok)
        IN  /\ ~hooks[h].mounted
            /\ hooks' = [hooks EXCEPT ![h] = [mounted |-> TRUE, state |-> res.state,
                                              items |-> res.state]]
            /\ ledger' = ledger
            /\ Called(h, "load", "", ok, res)

AddChecklistItem(h) ==
    \E ok \in BOOLEAN :
        LET id == GeneratedId(ledger.generated + 1)
            res == saveChecklistItems([storage |-> storage, state |-> hooks[h].state],
                                      AddedItems(hooks[h].items, id), ok)
        IN  /\ hooks[h].mounted
            /\ ledger.generated < MaxAdds
            /\ ledger.calls < MaxCalls
            /\ hooks' = [hooks EXCEPT ![h].state = res.state]
            /\ ledger' = [ledger EXCEPT !.generated = @ + 1,
                                        !.calls = @ + 1,
                                        !.added = IF ok THEN @ \cup {id} ELSE @]
            /\ Called(h, "add", id, ok, res)

UpdateChecklistItem(h) ==
    \E ok \in BOOLEAN, id \in TargetIds(hooks[h].items) :
        LET res == saveChecklistItems([storage |-> storage, state |-> hooks[h].state],
                                      UpdatedItems(hooks[h].items, id, NameUpdate), ok)
        IN  /\ hooks[h].mounted
            /\ ledger.calls < MaxCalls
            /\ hooks' = [hooks EXCEPT ![h].state = res.state]
            /\ ledger' = [ledger EXCEPT !.calls = @ + 1]
            /\ Called(h, "update", id, ok, res)

DeleteChecklistItem(h) ==
    \E ok \in BOOLEAN, id \in TargetIds(hooks[h].items) :
        LET res == saveChecklistItems([storage |-> storage, state |-> hooks[h].state],
                                      DeletedItems(hooks[h].items, id), ok)
        IN  /\ hooks[h].mounted
            /\ ledger.calls < MaxCalls
            /\ hooks' = [hooks EXCEPT ![h].state = res.state]
            /\ ledger' = [ledger EXCEPT !.calls = @ + 1,
                                        !.deleted = IF ok THEN @ \cup {id} ELSE @]
            /\ Called(h, "delete", id, ok, res)

\* the render after a state change: the callbacks now see the state
Rerender(h) ==
    /\ hooks[h].mounted
    /\ hooks[h].items # hooks[h].state
    /\ hooks' = [hooks EXCEPT ![h].items = hooks[h].state]
    /\ UNCHANGED <<scorerVars, inputVars, chartVars, cohortVars, pageVars,
                   storage, lastCall, ledger>>

HookNext ==
    \E h \in Instances :
        \/ Mount(h)
        \/ AddChecklistItem(h)
        \/ UpdateChecklistItem(h)
        \/ DeleteChecklistItem(h)
        \/ Rerender(h)

SpecHook == HookInit /\ [][HookNext]_vars

-----------------------------------------------------------------------------
(* Properties of the adherence scorer and of the notes envelope *)

\* v is an adherence map: an object whose entries are all booleans
IsAdherenceMap(v) ==
    v.t = "object" /\ \A k \in DOMAIN v.ent : v.ent[k] \in {"true", "false"}

FollowedCount(v) == Cardinality({k \in DOMAIN v.ent : v.ent[k] = "true"})

\* C1: for every adherence map, calculateAdherenceScore returns
\* followed_count / total_items * 100, a value within [0, 100], and the
\* empty map scores exactly 0.
C1_ScoreIsPercentage ==
    IsAdherenceMap(scoreArg) =>
        LET total == Cardinality(DOMAIN scoreArg.ent)
        IN  /\ ~adherenceScore.nan
            /\ total = 0 => adherenceScore = Num(0)
            /\ total > 0 =>
                   adherenceScore.n * total
                       = FollowedCount(scoreArg) * 100 * adherenceScore.d
            /\ NumGe(adherenceScore, Num(0))
            /\ NumGe(Num(100), adherenceScore)

\* a map of three items, two of them followed, has been scored 200/3
C1_Witness ==
    /\ IsAdherenceMap(scoreArg)
    /\ Cardinality(DOMAIN scoreArg.ent) = 3
    /\ FollowedCount(scoreArg) = 2
    /\ adherenceScore = Rat(200, 3)

\* C2: getAdherenceLevel maps every score to exactly one of the five bands:
\* >= 90 Excellent, >= 75 Good, >= 50 Fair, >= 25 Poor, otherwise Very Poor;
\* the boundary scores 90, 75, 50, 25 get the higher band.
C2_LevelBands ==
    adherenceLevel # "<none>" =>
        /\ adherenceLevel \in {"Excellent", "Good", "Fair", "Poor", "Very Poor"}
        /\ adherenceLevel = "Excellent" <=> NumGe(levelArg, Num(90))
        /\ adherenceLevel = "Good" <=>
               NumGe(levelArg, Num(75)) /\ ~NumGe(levelArg, Num(90))
        /\ adherenceLevel = "Fair" <=>
               NumGe(levelArg, Num(50)) /\ ~NumGe(levelArg, Num(75))
        /\ adherenceLevel = "Poor" <=>
               NumGe(levelArg, Num(25)) /\ ~NumGe(levelArg, Num(50))
        /\ levelArg = Num(90) => adherenceLevel = "Excellent"
        /\ levelArg = Num(75) => adherenceLevel = "Good"
        /\ levelArg = Num(50) => adherenceLevel = "Fair"
        /\ levelArg = Num(25) => adherenceLevel = "Poor"

\* the score 9/10 * 100 of a parsed checklist has been banded Excellent
C2_Witness ==
    /\ ObjectValuesLen(scoreArg) = 10
    /\ levelArg = Num(90)
    /\ adherenceLevel = "Excellent"

\* C4: for notes that are not valid JSON, parseTradeNotes returns the whole
\* text as userNotes and no adherence map, so that consumers see an empty
\* map and the score 0; null or empty notes give empty userNotes and an
\* empty map.
C4_InvalidJsonIsPlainNotes ==
    (parsed # NoResult /\ notes.json = "invalid") =>
        /\ ~parsed.hasChecklist
        /\ parsed.userNotes = IF notes.null THEN "" ELSE notes.raw
        /\ ChecklistOf(parsed) = JsObject(EmptyEntries)
        /\ ScoreOf(parsed) = Num(0)

\* a non-empty text that JSON.parse rejects has been parsed
C4_Witness ==
    /\ ~notes.null
    /\ notes.raw = "{checklist: broken"
    /\ notes.json = "invalid"
    /\ parsed.userNotes = "{checklist: broken"

\* notes is the envelope {checklist: map of booleans, userNotes: string}
IsEnvelope(nt) ==
    ~nt.null /\ nt.json = "object" /\ nt.hasCk /\ IsAdherenceMap(nt.ck)

\* C5: for notes that are valid JSON but not the envelope (a scalar, an
\* array, an object without a checklist key, an object whose checklist is
\* not a map of booleans), the whole text is the user notes and the map
\* used for scoring is empty (score 0, band Very Poor).
C5_ShapelessJsonIsPlainNotes ==
    (parsed # NoResult /\ ~notes.null /\ notes.json # "invalid" /\ ~IsEnvelope(notes)) =>
        /\ parsed.userNotes = notes.raw
        /\ ObjectValuesLen(ChecklistOf(parsed)) = 0
        /\ ScoreOf(parsed) = Num(0)
        /\ getAdherenceLevel(ScoreOf(parsed)) = "Very Poor"

-----------------------------------------------------------------------------
(* Properties of the time buckets *)

ActiveTrades == getActiveStrategyTrades(trades, strategies)

\* day number of the most recent Sunday on or before a trade date
SundayOf(date) ==
    LET z == DaysFromCivil(date.y, date.m, date.d) IN z - ((z + 4) % 7)

DayNumber(date) == DaysFromCivil(date.y, date.m, date.d)

\* C6: two active trades are in the same weekly bucket if and only if their
\* dates have the same most recent Sunday on or before them, also across
\* month and year boundaries; the bucket of a trade holds the trades of its
\* week.
C6_SameBucketIffSameSunday ==
    freqChart.rendered =>
        LET act == ActiveTrades
            bucket(i) == IndexOfKey(freqChart.weeklyData, WeekKey(act[i], tzOffset))
        IN  \A i \in 1..Len(act) :
                LET bi == bucket(i)
                    si == SundayOf(act[i].tradeDate)
                IN  /\ bi # 0
                    /\ \A j \in 1..Len(act) :
                           bi = bucket(j) <=> si = SundayOf(act[j].tradeDate)
                    /\ freqChart.weeklyData[bi].trades
                           = Cardinality({k \in 1..Len(act) :
                                SundayOf(act[k].tradeDate) = si})

\* Sun 2023-12-31 and Tue 2024-01-02 share a bucket, Sun 2024-03-10 has its own
C6_Witness ==
    /\ freqChart.rendered
    /\ tzOffset = 330
    /\ Len(ActiveTrades) = 3
    /\ ActiveTrades[1].tradeDate = [y |-> 2023, m |-> 12, d |-> 31]
    /\ ActiveTrades[2].tradeDate = [y |-> 2024, m |-> 3, d |-> 10]
    /\ ActiveTrades[3].tradeDate = [y |-> 2024, m |-> 1, d |-> 2]
    /\ Len(freqChart.weeklyData) = 2
    /\ freqChart.weeklyData[1].trades = 2

\* C7: the key of every weekly bucket is the calendar date of the week's
\* Sunday in the trade's own date, whatever the UTC offset of the
\* environment.
C7_WeekKeyIsSundayDate ==
    freqChart.rendered =>
        \A i \in 1..Len(ActiveTrades) :
            \E b \in 1..Len(freqChart.weeklyData) :
                freqChart.weeklyData[b].key
                    = CivilFromDays(SundayOf(ActiveTrades[i].tradeDate))

\* the w latest of the buckets bs, by the day number of their key
LatestKeys(bs, w) ==
    {bs[i].key : i \in {i \in 1..Len(bs) :
        Cardinality({j \in 1..Len(bs) : DayNumber(bs[j].key) > DayNumber(bs[i].key)}) < w}}

\* C8: the weekly chart data is ascending by full week-start date and holds
\* the 12 buckets with the latest week starts (all when fewer than 12).
C8_WeeklyChartAscendingLatest ==
    freqChart.rendered =>
        /\ \A i, j \in 1..Len(freqChart.chartData) :
              i < j => DayNumber(freqChart.chartData[i].key)
                           < DayNumber(freqChart.chartData[j].key)
        /\ {freqChart.chartData[i].key : i \in 1..Len(freqChart.chartData)}
              = LatestKeys(freqChart.weeklyData, WeeklyWindow)

\* the P&L of a trade as the aggregator contract has it: the parsed amount,
\* 0 for a missing or unparseable one
PnlOrZero(trade) ==
    LET v == ParseFieldOrZero(trade.profitLoss) IN IF v.nan THEN Num(0) ELSE v

RECURSIVE SumPnlOn(_, _, _, _)
SumPnlOn(ts, date, lo, hi) ==
    IF lo > hi THEN Num(0)
    ELSE IF lo = hi
    THEN (IF ts[lo].tradeDate = date THEN PnlOrZero(ts[lo]) ELSE Num(0))
    ELSE LET mid == (lo + hi) \div 2
         IN  NumAdd(SumPnlOn(ts, date, lo, mid), SumPnlOn(ts, date, mid + 1, hi))

ActiveDates == {ActiveTrades[i].tradeDate : i \in 1..Len(ActiveTrades)}

\* the w latest of a set of dates
LatestDates(ds, w) ==
    {d \in ds : Cardinality({e \in ds : DayNumber(e) > DayNumber(d)}) < w}

\* C9: the daily P&L data has one entry per distinct date of the active
\* trades, limited to the 30 most recent dates, strictly ascending by date,
\* and each entry's pnl is the sum of the P&L of the trades of that date.
C9_DailyPnLEntries ==
    pnlChart.rendered =>
        LET cd == pnlChart.chartData
        IN  /\ {cd[i].fullDate : i \in 1..Len(cd)} = LatestDates(ActiveDates, DailyWindow)
            /\ \A i, j \in 1..Len(cd) :
                  i < j => DayNumber(cd[i].fullDate) < DayNumber(cd[j].fullDate)
            /\ \A i \in 1..Len(cd) :
                  cd[i].pnl = SumPnlOn(ActiveTrades, cd[i].fullDate, 1, Len(ActiveTrades))

\* C10: every materialized bucket stands for at least one active trade: the
\* count of a weekly or a daily mood bucket is at least 1 and is the number
\* of active trades mapped to its key, a daily P&L entry is the date of an
\* active trade, no key is materialized twice, and before truncation the
\* counts add up to the number of active trades.
RECURSIVE SumTrades(_, _, _)
SumTrades(bs, lo, hi) ==
    IF lo > hi THEN 0
    ELSE IF lo = hi THEN bs[lo].trades
    ELSE LET mid == (lo + hi) \div 2
         IN  SumTrades(bs, lo, mid) + SumTrades(bs, mid + 1, hi)

DistinctKeys(bs) ==
    \A i, j \in 1..Len(bs) : bs[i].key = bs[j].key => i = j

C10_BucketsAreSparse ==
    LET act == ActiveTrades
    IN  /\ freqChart.rendered =>
            LET wd == freqChart.weeklyData
            IN  /\ DistinctKeys(wd)
                /\ \A b \in 1..Len(wd) :
                      /\ wd[b].trades >= 1
                      /\ wd[b].trades = Cardinality({i \in 1..Len(act) :
                                           WeekKey(act[i], tzOffset) = wd[b].key})
                /\ SumTrades(wd, 1, Len(wd)) = Len(act)
                /\ \A c \in 1..Len(freqChart.chartData) :
                      \E b \in 1..Len(wd) : wd[b] = freqChart.chartData[c]
        /\ moodChart.rendered =>
            LET md == moodChart.dailyMoodData
            IN  /\ DistinctKeys(md)
                /\ \A b \in 1..Len(md) :
                      /\ md[b].trades >= 1
                      /\ md[b].trades = Cardinality({i \in 1..Len(act) :
                                           act[i].tradeDate = md[b].key})
                      /\ Len(md[b].emotions) = md[b].trades
                /\ SumTrades(md, 1, Len(md)) = Len(act)
                /\ \A c \in 1..Len(moodChart.chartData) :
                      \E b \in 1..Len(md) :
                          /\ md[b].key = moodChart.chartData[c].fullDate
                          /\ md[b].trades = moodChart.chartData[c].trades
        /\ pnlChart.rendered =>
            LET dd == pnlChart.dailyData
            IN  /\ DistinctKeys(dd)
                /\ \A b \in 1..Len(dd) :
                      \E i \in 1..Len(act) : act[i].tradeDate = dd[b].key
                /\ \A i \in 1..Len(act) :
                      \E b \in 1..Len(dd) : act[i].tradeDate = dd[b].key
                /\ \A c \in 1..Len(pnlChart.chartData) :
                      \E b \in 1..Len(dd) :
                          dd[b].key = pnlChart.chartData[c].fullDate

\* the three charts have rendered an array of which one trade is filtered
\* out and two share a day
C10_Witness ==
    /\ freqChart.rendered /\ moodChart.rendered /\ pnlChart.rendered
    /\ Len(trades) = 3
    /\ Len(ActiveTrades) = 2
    /\ Len(moodChart.dailyMoodData) = 1
    /\ moodChart.dailyMoodData[1].trades = 2
    /\ freqChart.weeklyData[1].trades = 2
    /\ Len(pnlChart.dailyData) = 1

-----------------------------------------------------------------------------
(* Properties of the cohort comparison *)

\* the notes carry no checklist: null notes, plain text, or an envelope
\* whose map is empty
CarriesNoChecklist(nt) ==
    \/ nt.null
    \/ nt.json = "invalid"
    \/ IsEnvelope(nt) /\ DOMAIN nt.ck.ent = {}

Levels == {"Excellent", "Good", "Fair", "Poor", "Very Poor"}

\* number of trades of the band in the by-level data, 0 when it has no row
BandCount(data, level) ==
    IF \E r \in 1..Len(data) : data[r].level = level
    THEN (data[CHOOSE r \in 1..Len(data) : data[r].level = level]).trades
    ELSE 0

\* C3: in the by-adherence-level analysis every active trade is in exactly
\* one band; a trade whose notes carry no checklist has score 0 and is
\* counted in Very Poor; the band counts add up to the active trades.
C3_EveryTradeInOneBand ==
    adherenceChart.rendered =>
        LET act == ActiveTrades
            groups == adherenceChart.adherenceGroups
            data == adherenceChart.adherenceData
            noChecklist == {i \in 1..Len(act) : CarriesNoChecklist(act[i].notes)}
        IN  /\ \A i \in 1..Len(act) :
                  Cardinality({g \in 1..Len(groups) :
                      \E k \in 1..Len(groups[g].trades) :
                          groups[g].trades[k].trade.id = act[i].id}) = 1
            /\ \A g \in 1..Len(groups) : groups[g].key \in Levels
            /\ \A i \in noChecklist :
                  \E g \in 1..Len(groups) :
                      /\ groups[g].key = "Very Poor"
                      /\ \E k \in 1..Len(groups[g].trades) :
                            /\ groups[g].trades[k].trade.id = act[i].id
                            /\ groups[g].trades[k].adherenceScore = Num(0)
            /\ BandCount(data, "Very Poor") >= Cardinality(noChecklist)
            /\ \A r1, r2 \in 1..Len(data) : data[r1].level = data[r2].level => r1 = r2
            /\ SumTrades(data, 1, Len(data)) = Len(act)

\* three active trades without a checklist (null notes, plain text, empty
\* envelope) have been counted in Very Poor
C3_Witness ==
    /\ adherenceChart.rendered
    /\ Len(ActiveTrades) = 3
    /\ ActiveTrades[1].notes.null
    /\ ActiveTrades[2].notes.json = "invalid" /\ ~ActiveTrades[2].notes.null
    /\ IsEnvelope(ActiveTrades[3].notes) /\ CarriesNoChecklist(ActiveTrades[3].notes)
    /\ BandCount(adherenceChart.adherenceData, "Very Poor") = 3

-----------------------------------------------------------------------------
(* Numeric fallbacks *)

\* C11: a trade whose profitLoss or entryPrice does not parse to a number
\* contributes 0 to every aggregate it enters: no daily P&L sum, weekly
\* pnlSum, avgPnL or totalVolume, daily mood P&L or per-trade pnl of the
\* cohorts is NaN, and a day's P&L is the sum of the parseable amounts.
C11_UnparseableContributesZero ==
    /\ pnlChart.rendered =>
          \A b \in 1..Len(pnlChart.dailyData) :
              /\ ~pnlChart.dailyData[b].pnl.nan
              /\ pnlChart.dailyData[b].pnl
                    = SumPnlOn(ActiveTrades, pnlChart.dailyData[b].key,
                               1, Len(ActiveTrades))
    /\ freqChart.rendered =>
          \A b \in 1..Len(freqChart.weeklyData) :
              /\ ~freqChart.weeklyData[b].pnlSum.nan
              /\ ~freqChart.weeklyData[b].avgPnL.nan
              /\ ~freqChart.weeklyData[b].totalVolume.nan
    /\ moodChart.rendered =>
          \A c \in 1..Len(moodChart.chartData) : ~moodChart.chartData[c].pnl.nan
    /\ adherenceChart.rendered =>
          \A i \in 1..Len(adherenceChart.tradesWithChecklist) :
              ~adherenceChart.tradesWithChecklist[i].pnl.nan

-----------------------------------------------------------------------------
(* Properties of RiskRewardChart *)

\* the trade an entry of the risk-reward result set was computed from
SourceTrade(e) == trades[e.id]

\* |a - b| by cases
Distance(a, b) == IF NumGe(a, b) THEN NumSub(a, b) ELSE NumSub(b, a)

IsPresent(field) == field \notin {Absent, ""}

HasAllPrices(trade) ==
    IsPresent(trade.entryPrice) /\ IsPresent(trade.exitPrice)
        /\ IsPresent(trade.stopLoss)

\* C14: the risk-reward result set holds one entry for each active trade
\* whose entry, exit and stop-loss prices are all present (a price of zero
\* counts as present), none for any other trade, in the order of the trades.
C14_EntryIffAllPresent ==
    riskRewardChart.rendered =>
        LET act == getActiveStrategyTrades(trades, strategies)
            expected == FilterSeq(act, [i \in 1..Len(act) |-> HasAllPrices(act[i])],
                                  1, Len(act))
        IN  /\ Len(riskRewardChart.riskRewardData) = Len(expected)
            /\ \A i \in 1..Len(expected) :
                  riskRewardChart.riskRewardData[i].id = expected[i].id

-----------------------------------------------------------------------------
(* Properties of the mood scores *)

\* the score the table assigns to a label, 3 for no label and for a label
\* outside the vocabulary
TableScore(emotion) ==
    CASE emotion = "Confident" -> 5
      [] emotion \in {"Excited", "Disciplined"} -> 4
      [] emotion = "Anxious" -> 2
      [] emotion \in {"Fearful", "Greedy"} -> 1
      [] OTHER -> 3

\* the active trades of a date, in input order
TradesOn(date) ==
    LET act == getActiveStrategyTrades(trades, strategies)
    IN  FilterSeq(act, [i \in 1..Len(act) |-> act[i].tradeDate = date], 1, Len(act))

\* C15: the emotion score of every scored trade is the table value of its
\* label, 3 for an absent label and for any label outside the vocabulary
\* ('constructor' and 'toString' included), an integer in 1..5.
C15_EmotionScoreTable ==
    moodChart.rendered =>
        \A b \in 1..Len(moodChart.dailyMoodData) :
            LET day == moodChart.dailyMoodData[b]
                ts == TradesOn(day.key)
            IN  /\ Len(day.emotions) = Len(ts)
                /\ \A k \in 1..Len(ts) :
                      /\ day.emotions[k] = Num(TableScore(ts[k].emotion))
                      /\ ~day.emotions[k].nan
                      /\ day.emotions[k].d = 1
                      /\ day.emotions[k].n \in 1..5

\* the label of the bands for a mood score n / d (d > 0), boundaries in the
\* higher band
BandLabel(n, d) ==
    IF 2 * n >= 9 * d THEN "Very Positive"
    ELSE IF 2 * n >= 7 * d THEN "Positive"
    ELSE IF 2 * n >= 5 * d THEN "Neutral"
    ELSE IF 2 * n >= 3 * d THEN "Negative"
    ELSE "Very Negative"

\* C16: the mood score of every day of the chart is the sum of the emotion
\* scores of the day's active trades divided by their number, a number
\* within [1, 5], and its label is the one of the bands.
C16_DailyMoodIsMean ==
    moodChart.rendered =>
        \A r \in 1..Len(moodChart.chartData) :
            LET row == moodChart.chartData[r]
                ts == TradesOn(row.fullDate)
                total == SumNums([k \in 1..Len(ts) |-> EmotionScore(ts[k].emotion)], 1)
            IN  /\ Len(ts) > 0
                /\ ~row.moodScore.nan
                /\ row.moodScore.n * total.d * Len(ts) = total.n * row.moodScore.d
                /\ row.moodScore.n >= row.moodScore.d
                /\ row.moodScore.n <= 5 * row.moodScore.d
                /\ row.moodLabel = BandLabel(row.moodScore.n, row.moodScore.d)

-----------------------------------------------------------------------------
(* Properties of the item cohorts and of the Discipline page *)

\* what the notes of a trade record for an item: "true" or "false" when the
\* notes are an envelope whose map has the item's key, "<none>" otherwise
RecordedValue(trade, id) ==
    IF IsEnvelope(trade.notes) /\ id \in DOMAIN trade.notes.ck.ent
    THEN trade.notes.ck.ent[id]
    ELSE "<none>"

\* the ids of the trades of a cohort
CohortIds(cohort) == {cohort[i].trade.id : i \in 1..Len(cohort)}

ItemIdsOf(items) == {items[k].id : k \in 1..Len(items)}

\* C12: every average or rate over a cohort of zero trades is exactly 0 and
\* none is NaN: the per-band win rate and average P&L, the per-item
\* followed and not-followed average P&L and win rate, the average
\* adherence score, the distribution percentages, the win rates of the high
\* and low adherence trades, and the average risk-reward ratio.
C12_EmptyCohortAveragesAreZero ==
    /\ adherenceChart.rendered =>
          /\ \A g \in 1..Len(adherenceChart.adherenceData) :
                LET row == adherenceChart.adherenceData[g]
                IN  /\ ~row.winRate.nan /\ ~row.avgPnL.nan
                    /\ row.trades = 0 => row.winRate = Num(0) /\ row.avgPnL = Num(0)
          /\ \A k \in 1..Len(adherenceChart.itemAnalysis) :
                LET row == adherenceChart.itemAnalysis[k]
                IN  /\ ~row.followedPnL.nan /\ ~row.notFollowedPnL.nan
                    /\ ~row.followedWinRate.nan /\ ~row.notFollowedWinRate.nan
                    /\ row.followedTrades = 0 =>
                          row.followedPnL = Num(0) /\ row.followedWinRate = Num(0)
                    /\ row.notFollowedTrades = 0 =>
                          row.notFollowedPnL = Num(0) /\ row.notFollowedWinRate = Num(0)
    /\ discipline.rendered =>
          /\ ~discipline.avgAdherenceScore.nan
          /\ ~discipline.highAdherenceWinRate.nan
          /\ ~discipline.lowAdherenceWinRate.nan
          /\ Len(discipline.tradesWithChecklistData) = 0 =>
                /\ discipline.avgAdherenceScore = Num(0)
                /\ discipline.highAdherenceWinRate = Num(0)
                /\ discipline.lowAdherenceWinRate = Num(0)
          /\ \A l \in 1..Len(discipline.adherenceDistribution) :
                LET row == discipline.adherenceDistribution[l]
                IN  /\ ~row.percentage.nan
                    /\ (row.trades = 0 \/ Len(discipline.tradesWithChecklistData) = 0)
                          => row.percentage = Num(0)
    /\ riskRewardChart.rendered =>
          /\ ~riskRewardChart.avgRiskReward.nan
          /\ Len(riskRewardChart.riskRewardData) = 0 =>
                riskRewardChart.avgRiskReward = Num(0)

\* the three components have rendered trades none of which has prices or
\* checklist data: the risk-reward set and the set of trades with checklist
\* data are empty and the averages over them are 0
C12_Witness ==
    /\ Len(trades) > 0
    /\ adherenceChart.rendered
    /\ discipline.rendered /\ discipline.hasItems
    /\ riskRewardChart.rendered
    /\ Len(riskRewardChart.riskRewardData) = 0
    /\ riskRewardChart.avgRiskReward = Num(0)
    /\ Len(discipline.tradesWithChecklistData) = 0
    /\ discipline.avgAdherenceScore = Num(0)
    /\ Len(discipline.adherenceDistribution) = 5
    /\ \A l \in 1..5 : discipline.adherenceDistribution[l].percentage = Num(0)

\* the cohorts f and nf of item id hold the trades of pop (trades with
\* their parsed checklist) that record true, respectively false, for it
CohortsFollowRecord(pop, id, f, nf) ==
    /\ \A i \in 1..Len(pop) :
          /\ pop[i].trade.id \in CohortIds(f)
                <=> RecordedValue(pop[i].trade, id) = "true"
          /\ pop[i].trade.id \in CohortIds(nf)
                <=> RecordedValue(pop[i].trade, id) = "false"
    /\ CohortIds(f) \cap CohortIds(nf) = {}
    /\ \A i \in 1..Len(f) : DOMAIN f[i].checklist.ent # {}
    /\ \A i \in 1..Len(nf) : DOMAIN nf[i].checklist.ent # {}

\* C17: for every defined item, an analysed trade is in the followed cohort
\* exactly when its recorded map holds true for the item and in the
\* not-followed cohort exactly when it holds false; a trade whose map lacks
\* the key is in neither; the cohorts are disjoint, and every member has a
\* non-empty map.  The counts of the item analysis of the chart and of the
\* Top Impact Items of the page are the sizes of these cohorts.
C17_CohortsByRecordedValue ==
    /\ adherenceChart.rendered =>
          LET twc == adherenceChart.tradesWithChecklist
          IN  \A k \in 1..Len(checklistItems) :
                  LET id == checklistItems[k].id
                      f == followedTrades(twc, id)
                      nf == notFollowedTrades(twc, id)
                  IN  /\ CohortsFollowRecord(twc, id, f, nf)
                      /\ \A r \in 1..Len(adherenceChart.itemAnalysis) :
                            adherenceChart.itemAnalysis[r].id = id =>
                                /\ adherenceChart.itemAnalysis[r].followedTrades = Len(f)
                                /\ adherenceChart.itemAnalysis[r].notFollowedTrades
                                      = Len(nf)
    /\ discipline.rendered =>
          LET all == DisciplineTradesWithChecklist(trades)
              data == discipline.tradesWithChecklistData
          IN  \A k \in 1..Len(checklistItems) :
                  LET id == checklistItems[k].id
                      f == followedTrades(data, id)
                      nf == notFollowedTrades(data, id)
                  IN  /\ CohortsFollowRecord(all, id, f, nf)
                      /\ \A r \in 1..Len(discipline.topImpactItems) :
                            discipline.topImpactItems[r].id = id =>
                                /\ discipline.topImpactItems[r].followedTrades = Len(f)
                                /\ discipline.topImpactItems[r].notFollowedTrades
                                      = Len(nf)

\* the chart and the page have rendered a trade that followed one item, skipped a second
\* and has a non-empty map without the key of a third
C17_Witness ==
    /\ adherenceChart.rendered
    /\ discipline.rendered
    /\ \E i \in 1..Len(adherenceChart.tradesWithChecklist) :
          LET t == adherenceChart.tradesWithChecklist[i].trade
          IN  \E a, b, c \in ItemIdsOf(checklistItems) :
                  /\ RecordedValue(t, a) = "true"
                  /\ RecordedValue(t, b) = "false"
                  /\ RecordedValue(t, c) = "<none>"
                  /\ IsEnvelope(t.notes)

\* number of winning trades of a cohort, from the recorded amounts
WinsOf(cohort) ==
    Cardinality({i \in 1..Len(cohort) :
                    NumGt(ParseFieldOrZero(cohort[i].trade.profitLoss), Num(0))})

\* average times count is the total, and the average of no trades is 0
IsAverageOf(avg, total, count) ==
    IF count = 0 THEN avg = Num(0) ELSE NumMul(avg, Num(count)) = total

\* total / count, 0 for no trades
MeanOf(total, count) == IF count = 0 THEN Num(0) ELSE NumDivInt(total, count)

\* C18: in every row of the item analysis the followed and the not-followed
\* average P&L are each the total P&L of that cohort divided by that
\* cohort's own count (0 for an empty cohort), the win rates are each the
\* cohort's wins over its own count, impact is the followed average minus
\* the not-followed average and winRateImpact the followed win rate minus
\* the not-followed one; the impact of a Top Impact Item of the page is the
\* same difference over the page's cohorts.
C18_ImpactIsDifferenceOfAverages ==
    /\ adherenceChart.rendered =>
          \A r \in 1..Len(adherenceChart.itemAnalysis) :
              LET row == adherenceChart.itemAnalysis[r]
                  f == followedTrades(adherenceChart.tradesWithChecklist, row.id)
                  nf == notFollowedTrades(adherenceChart.tradesWithChecklist, row.id)
              IN  /\ IsAverageOf(row.followedPnL,
                                 calculateTotalPnL(RawTrades(f), strategies), Len(f))
                  /\ IsAverageOf(row.notFollowedPnL,
                                 calculateTotalPnL(RawTrades(nf), strategies), Len(nf))
                  /\ IsAverageOf(row.followedWinRate, Num(100 * WinsOf(f)), Len(f))
                  /\ IsAverageOf(row.notFollowedWinRate, Num(100 * WinsOf(nf)), Len(nf))
                  /\ row.impact = NumSub(row.followedPnL, row.notFollowedPnL)
                  /\ row.winRateImpact
                        = NumSub(row.followedWinRate, row.notFollowedWinRate)
    /\ discipline.rendered =>
          \A r \in 1..Len(discipline.topImpactItems) :
              LET row == discipline.topImpactItems[r]
                  f == followedTrades(discipline.tradesWithChecklistData, row.id)
                  nf == notFollowedTrades(discipline.tradesWithChecklistData, row.id)
              IN  row.impact
                      = NumSub(MeanOf(calculateTotalPnL(RawTrades(f), strategies), Len(f)),
                               MeanOf(calculateTotalPnL(RawTrades(nf), strategies),
                                      Len(nf)))

\* followed trades of +100 and +200 and not-followed trades of -50 and +10
\* have been charted: averages 150 and -20, impact 170, on the chart and on
\* the page
C18_Witness ==
    /\ adherenceChart.rendered
    /\ discipline.rendered
    /\ Len(discipline.topImpactItems) = 1
    /\ discipline.topImpactItems[1].impact = Num(170)
    /\ \E r \in 1..Len(adherenceChart.itemAnalysis) :
          LET row == adherenceChart.itemAnalysis[r]
          IN  /\ row.followedTrades = 2 /\ row.notFollowedTrades = 2
              /\ row.followedPnL = Num(150)
              /\ row.notFollowedPnL = Num(-20)
              /\ row.impact = Num(170)
              /\ row.winRateImpact = Num(50)

\* the impact of an item over the trades of the page
PageImpact(id) ==
    NumSub(AvgPnL(followedTrades(discipline.tradesWithChecklistData, id), strategies),
           AvgPnL(notFollowedTrades(discipline.tradesWithChecklistData, id), strategies))

\* the defined items with a trade of the page in one of their cohorts
PageCandidates ==
    {id \in ItemIdsOf(checklistItems) :
        \E i \in 1..Len(discipline.tradesWithChecklistData) :
            RecordedValue(discipline.tradesWithChecklistData[i].trade, id)
                \in {"true", "false"}}

\* C19: the item analysis has one row for each defined item that has at
\* least one charted trade in its followed or not-followed cohort, in the
\* order of the definitions, and no other row: none for a defined item no
\* trade recorded, none for a recorded id that is not defined.  The Top
\* Impact Items of the page are such items too, all of them when there are
\* at most five.
C19_RowsAreDefinedItemsWithTrades ==
    /\ adherenceChart.rendered =>
          LET twc == adherenceChart.tradesWithChecklist
              recorded(id) == \E i \in 1..Len(twc) :
                                  RecordedValue(twc[i].trade, id) \in {"true", "false"}
              expected == FilterSeq(checklistItems,
                                    [k \in 1..Len(checklistItems) |->
                                        recorded(checklistItems[k].id)],
                                    1, Len(checklistItems))
          IN  /\ Len(adherenceChart.itemAnalysis) = Len(expected)
              /\ \A r \in 1..Len(expected) :
                    /\ adherenceChart.itemAnalysis[r].id = expected[r].id
                    /\ adherenceChart.itemAnalysis[r].item = expected[r].name
                    /\ adherenceChart.itemAnalysis[r].followedTrades
                          + adherenceChart.itemAnalysis[r].notFollowedTrades > 0
    /\ (discipline.rendered /\ discipline.hasItems) =>
          LET shown == {discipline.topImpactItems[r].id :
                            r \in 1..Len(discipline.topImpactItems)}
          IN  /\ shown \subseteq PageCandidates
              /\ Cardinality(PageCandidates) <= TopItemsWindow => shown = PageCandidates
              /\ \A r \in 1..Len(discipline.topImpactItems) :
                    discipline.topImpactItems[r].followedTrades
                        + discipline.topImpactItems[r].notFollowedTrades > 0

\* the chart and the page have a row, a defined item no trade recorded has
\* none, and a trade records an id that is not defined
C19_Witness ==
    /\ adherenceChart.rendered
    /\ discipline.rendered
    /\ Len(discipline.topImpactItems) > 0
    /\ Len(adherenceChart.itemAnalysis) > 0
    /\ \E id \in ItemIdsOf(checklistItems) :
          \A r \in 1..Len(adherenceChart.itemAnalysis) :
              adherenceChart.itemAnalysis[r].id # id
    /\ \E i \in 1..Len(adherenceChart.tradesWithChecklist) :
          \E id \in DOMAIN adherenceChart.tradesWithChecklist[i].checklist.ent :
              id \notin ItemIdsOf(checklistItems)

\* C20: the Top Impact Items are at most five of the items with a trade in
\* a cohort, each with its impact, in non-increasing order of |impact|, and
\* no item left out has a strictly larger |impact| than an item shown.
C20_TopItemsByAbsoluteImpact ==
    discipline.rendered =>
        LET top == discipline.topImpactItems
            shown == {top[i].id : i \in 1..Len(top)}
        IN  /\ Len(top) <= 5
            /\ Cardinality(shown) = Len(top)
            /\ discipline.hasItems =>
                  /\ shown \subseteq PageCandidates
                  /\ Len(top) = IF Cardinality(PageCandidates) < 5
                                THEN Cardinality(PageCandidates) ELSE 5
            /\ \A i \in 1..Len(top) : top[i].impact = PageImpact(top[i].id)
            /\ \A i, j \in 1..Len(top) :
                  i < j => NumGe(NumAbs(top[i].impact), NumAbs(top[j].impact))
            /\ \A id \in PageCandidates \ shown :
                  \A i \in 1..Len(top) :
                      NumGe(NumAbs(top[i].impact), NumAbs(PageImpact(id)))

\* seven items have an impact; the five shown run from |impact| 80 down to
\* 65, an item of negative impact is shown above one of smaller positive
\* impact, and the two items left out have the smallest |impact|
C20_Witness ==
    /\ discipline.rendered
    /\ Cardinality(PageCandidates) = 7
    /\ Len(discipline.topImpactItems) = 5
    /\ discipline.topImpactItems[1].impact = Num(80)
    /\ discipline.topImpactItems[3].impact = Rat(-220, 3)
    /\ discipline.topImpactItems[5].impact = Num(65)
    /\ \A id \in PageCandidates \ {discipline.topImpactItems[i].id : i \in 1..5} :
          NumAbs(PageImpact(id)) = Rat(140, 3)

-----------------------------------------------------------------------------
(* Properties of the by-level output *)

BandOrder == <<"Excellent", "Good", "Fair", "Poor", "Very Poor">>

\* position of a level in the order of the bands
BandPosition(level) == CHOOSE p \in 1..Len(BandOrder) : BandOrder[p] = level

\* C21: the by-level output has a row exactly for the bands that hold at
\* least one charted trade, each band once, in the order Excellent, Good,
\* Fair, Poor, Very Poor, whatever the order in which the trades met them.
C21_BandsInFixedOrder ==
    adherenceChart.rendered =>
        LET data == adherenceChart.adherenceData
            twc == adherenceChart.tradesWithChecklist
        IN  /\ \A r \in 1..Len(data) :
                  /\ data[r].level \in Levels
                  /\ data[r].trades > 0
                  /\ data[r].trades
                        = Cardinality({i \in 1..Len(twc) :
                                          twc[i].adherenceLevel = data[r].level})
            /\ \A i \in 1..Len(twc) :
                  \E r \in 1..Len(data) : data[r].level = twc[i].adherenceLevel
            /\ \A r, q \in 1..Len(data) :
                  r < q => BandPosition(data[r].level) < BandPosition(data[q].level)

\* trades of the bands Very Poor, Fair and Good, met in this order, have
\* been charted as Good, Fair, Very Poor
C21_Witness ==
    /\ adherenceChart.rendered
    /\ Len(adherenceChart.adherenceGroups) = 3
    /\ adherenceChart.adherenceGroups[1].key = "Very Poor"
    /\ adherenceChart.adherenceGroups[2].key = "Fair"
    /\ adherenceChart.adherenceGroups[3].key = "Good"
    /\ adherenceChart.adherenceData[1].level = "Good"
    /\ adherenceChart.adherenceData[2].level = "Fair"
    /\ adherenceChart.adherenceData[3].level = "Very Poor"

-----------------------------------------------------------------------------
(* Properties of the Discipline page metrics *)

\* the trades with checklist data among the active trades
ActivePageData ==
    tradesWithChecklistData(
        DisciplineTradesWithChecklist(getActiveStrategyTrades(trades, strategies)))

\* C22: with a non-empty strategies list, a trade of a strategy that is not
\* active contributes to no metric of the Discipline page: the trades with
\* checklist data, the average adherence score, the adherence distribution
\* and the per-item counts are those of the active trades alone.
C22_InactiveTradesExcluded ==
    (discipline.rendered /\ Len(strategies) > 0) =>
        /\ \A i \in 1..Len(discipline.tradesWithChecklistData) :
              IsActiveStrategy(discipline.tradesWithChecklistData[i].trade.strategy,
                               strategies)
        /\ discipline.avgAdherenceScore = avgAdherenceScore(ActivePageData)
        /\ discipline.hasItems =>
              /\ \A l \in 1..Len(discipline.adherenceDistribution) :
                    discipline.adherenceDistribution[l].trades
                        = Cardinality({i \in 1..Len(ActivePageData) :
                              ActivePageData[i].adherenceLevel
                                  = discipline.adherenceDistribution[l].level})
              /\ \A r \in 1..Len(discipline.topImpactItems) :
                    LET row == discipline.topImpactItems[r]
                    IN  /\ row.followedTrades
                              = Len(followedTrades(ActivePageData, row.id))
                        /\ row.notFollowedTrades
                              = Len(notFollowedTrades(ActivePageData, row.id))

\* the map the notes of a trade record is non-empty
HasRecordedMap(trade) == IsEnvelope(trade.notes) /\ DOMAIN trade.notes.ck.ent # {}

\* followed / total * 100 of the recorded map compared with a threshold
RecordedScoreAtLeast(trade, threshold) ==
    FollowedCount(trade.notes.ck) * 100
        >= threshold * Cardinality(DOMAIN trade.notes.ck.ent)

\* the recorded scores of the trades with a recorded map add up to total
RECURSIVE SumRecordedScores(_, _)
SumRecordedScores(ts, i) ==
    IF i > Len(ts) THEN Num(0)
    ELSE NumAdd(IF HasRecordedMap(ts[i])
                THEN Rat(FollowedCount(ts[i].notes.ck) * 100,
                         Cardinality(DOMAIN ts[i].notes.ck.ent))
                ELSE Num(0),
                SumRecordedScores(ts, i + 1))

\* C23: on the Discipline page a trade is in the high-adherence cohort
\* exactly when its map is non-empty and its score is at least 75, in the
\* low-adherence cohort exactly when its map is non-empty and its score is
\* below 50; the cohorts are disjoint; a trade with an empty map is in
\* neither and is not averaged: the average adherence score is the sum of
\* the scores of the trades with a non-empty map over their number.
C23_HighLowFromTradesWithData ==
    discipline.rendered =>
        LET high == CohortIds(discipline.highAdherenceTradesData)
            low == CohortIds(discipline.lowAdherenceTradesData)
            withMap == {i \in 1..Len(trades) : HasRecordedMap(trades[i])}
        IN  /\ \A i \in 1..Len(trades) :
                  /\ trades[i].id \in high
                        <=> i \in withMap /\ RecordedScoreAtLeast(trades[i], 75)
                  /\ trades[i].id \in low
                        <=> i \in withMap /\ ~RecordedScoreAtLeast(trades[i], 50)
                  /\ i \notin withMap =>
                        trades[i].id \notin CohortIds(discipline.tradesWithChecklistData)
            /\ high \cap low = {}
            /\ Len(discipline.tradesWithChecklistData) = Cardinality(withMap)
            /\ IsAverageOf(discipline.avgAdherenceScore,
                           SumRecordedScores(trades, 1), Cardinality(withMap))

\* the page has rendered a trade without a checklist and trades scoring
\* 100, 0 and 50: one is high, one is low, and the average over the three
\* with a map is 50
C23_Witness ==
    /\ discipline.rendered
    /\ Len(trades) = 4
    /\ ~HasRecordedMap(trades[1])
    /\ Len(discipline.tradesWithChecklistData) = 3
    /\ CohortIds(discipline.highAdherenceTradesData) = {2}
    /\ CohortIds(discipline.lowAdherenceTradesData) = {3}
    /\ discipline.avgAdherenceScore = Num(50)

-----------------------------------------------------------------------------
(* Properties of the checklist definitions *)

StoredIds == {storage.items[k].id : k \in 1..Len(storage.items)}

\* C24: a delete that is written changes only the stored definitions list:
\* it removes the item with the given id and leaves every other definition
\* and their order as they were; no call changes the trades on record (their
\* notes, and with them the parsed map, the score and the level).
C24_DeleteRemovesOnlyTheItem ==
    /\ trades = HookTrades
    /\ (lastCall.op = "delete" /\ lastCall.ok /\ lastCall.storageBefore.kind = "items") =>
          /\ storage.kind = "items"
          /\ Len(storage.items)
                = Cardinality({k \in 1..Len(lastCall.storageBefore.items) :
                                  lastCall.storageBefore.items[k].id # lastCall.id})
          /\ \A k \in 1..Len(storage.items) :
                /\ storage.items[k].id # lastCall.id
                /\ \E j \in 1..Len(lastCall.storageBefore.items) :
                      storage.items[k] = lastCall.storageBefore.items[j]

\* C28: every definition that was added (its write succeeded) and not
\* deleted afterwards is in the list stored in localStorage.
C28_NoDefinitionLost ==
    \A id \in ledger.added \ ledger.deleted :
        storage.kind = "items" /\ id \in StoredIds

\* C29: when the write of an add, update or delete fails, the state of the
\* instance and the stored value are what they were before the call; no
\* call throws; a load of a stored text that does not parse leaves the
\* instance with the empty list and the stored text as it is.
C29_FailedWriteLeavesState ==
    /\ ~lastCall.threw
    /\ (lastCall.op \in {"add", "update", "delete"} /\ ~lastCall.ok) =>
          /\ hooks[lastCall.hook].state = lastCall.stateBefore
          /\ storage = lastCall.storageBefore
    /\ (lastCall.op = "load" /\ lastCall.storageBefore = CorruptStorage) =>
          /\ hooks[lastCall.hook].state = <<>>
          /\ storage = CorruptStorage

\* an instance that loaded the default items has renamed one of them, and
\* its next call, a delete, could not be written
C29_Witness ==
    /\ lastCall.op = "delete"
    /\ ~lastCall.ok
    /\ Len(lastCall.stateBefore) = 8
    /\ \E k \in 1..8 : lastCall.stateBefore[k].name = "Renamed"
    /\ hooks[lastCall.hook].state = lastCall.stateBefore


-----------------------------------------------------------------------------
(* Properties of the cohort comparison under reordering *)

\* every arrangement of an array: the array read through a bijection of its
\* positions
Arrangements(s) ==
    {[i \in 1..Len(s) |-> s[p[i]]] :
        p \in {q \in [1..Len(s) -> 1..Len(s)] :
                 \A i, j \in 1..Len(s) : q[i] = q[j] => i = j}}

\* the by-level output and the per-item output of an array of trades
ByLevelOf(ts) == adherenceData(adherenceGroups(tradesWithChecklist(ts, strategies)),
                               strategies)

PerItemOf(ts) == itemAnalysis(checklistItems, tradesWithChecklist(ts, strategies),
                              strategies)

-----------------------------------------------------------------------------
(* Properties of re-rendering *)

-----------------------------------------------------------------------------
(* Properties of the notes round trip *)

\* a text without its leading and trailing white space
WithoutOuterSpace(n) == IF n = "  late entry " THEN "late entry" ELSE n

\* the maps of the envelopes the model enters
RoundTripMaps == AdherenceMaps \cup {PrefixMap(2, 1)}

-----------------------------------------------------------------------------
(* Properties of the page rows against the chart rows *)

\* C30: for the same trades and item definitions, each row of the Top Impact
\* Items of the Discipline page has the followed count, the not-followed
\* count and the impact of the row of the same item in the itemAnalysis of
\* ChecklistAdherenceChart, also when a trade is of a strategy that is not
\* active.
C30_PageRowsEqualChartRows ==
    (discipline.rendered /\ adherenceChart.rendered) =>
        \A r \in 1..Len(discipline.topImpactItems) :
            \A k \in 1..Len(adherenceChart.itemAnalysis) :
                LET row == discipline.topImpactItems[r]
                    entry == adherenceChart.itemAnalysis[k]
                IN  entry.id = row.id =>
                        /\ row.followedTrades = entry.followedTrades
                        /\ row.notFollowedTrades = entry.notFollowedTrades
                        /\ row.impact = entry.impact
====
